---- MODULE Spec2Model ----
(***************************************************************************)
(* A model of jl (src/jl.c): the pattern compiler, the root selection, the *)
(* lexer with its one-token peek and one-byte pushback, the operator       *)
(* runtime and the table flush.                                            *)
(*                                                                         *)
(* Bytes are one-character strings; a C string is a sequence of bytes.     *)
(* NUL stands for the byte 0, which never occurs inside an input.          *)
(***************************************************************************)
EXTENDS Integers, Sequences, FiniteSets, TLC

VARIABLES
    pc,        \* where main() is: "parse", "find_root", "open", "run", "peek",
               \* "close", or how the process ended: "exit0", "exit1" (die),
               \* "abort", "segv"
    input,     \* the command line and the streams: [fam, pat, props, files, stdin]
    patbuf,    \* the memory of the PATTERN argument
    head,      \* the operator tree
    tables,    \* the table registry
    lexer,     \* the lexer struct
    argi,      \* the FILE argument being read (1-based)
    out,       \* the bytes written to stdout
    err,       \* the message die() wrote, "" before that
    runs,      \* how many top-level run_op calls have returned
    flushlog,  \* one record per flush_tables call
    calls      \* the calls made so far: [rows, io, toks], one record per add_row
               \* call, per read_char or unread_char call, per token handed out

vars == <<pc, input, patbuf, head, tables, lexer, argi, out, err, runs, flushlog, calls>>

\* ------------------------------------------------------------------ bounds

\* longest pattern string enumerated by InitPat
MaxPatLen == 4

\* longest array of the generated input documents
MaxElems == 2

\* most top-level documents in one generated stream
MaxDocs == 2

\* most FILE arguments
MaxFiles == 2

\* most peek_token calls on a stream read token by token
MaxPeeks == 2

\* longest stream of number bytes
MaxNumLen == 4

\* ------------------------------------------------------------------ bytes

NUL == "NUL"

Digits == {"0", "1", "2", "3", "4", "5", "6", "7", "8", "9"}

Digits1to9 == Digits \ {"0"}

HexDigits == Digits \cup {"a", "b", "c", "d", "e", "f", "A", "B", "C", "D", "E", "F"}

\* the C string that starts at index i of buf (1-based), up to its NUL
RECURSIVE CStr(_, _)
CStr(buf, i) ==
    IF i > Len(buf) \/ buf[i] = NUL THEN <<>> ELSE <<buf[i]>> \o CStr(buf, i + 1)

\* ------------------------------------------------------------------ operators

NoOp == [type |-> "NULL"]

new_array_op == [type |-> "OP_ARRAY", table |-> 0, next |-> NoOp, isroot |-> FALSE]

new_object_op == [type |-> "OP_OBJECT", table |-> 0, prop |-> <<>>, isroot |-> FALSE]

\* a zeroed Table appended to the registry; the new table is the last one
new_table(tabs) ==
    Append(tabs, [ncols |-> 0, nrows |-> 0, rows |-> <<>>, newrow |-> <<>>])

\* new_collect_op without the advance of the column: every Collect node of
\* a table takes column 0
new_collect_op_first(tabs, t) ==
    [op   |-> [type |-> "OP_COLLECT", table |-> t, column |-> 0],
     tabs |-> [tabs EXCEPT ![t].ncols = @ + 1]]

\* the Collect node takes the table's next column (0-based) and bumps ncols
new_collect_op(tabs, t) ==
    [op   |-> [type |-> "OP_COLLECT", table |-> t, column |-> tabs[t].ncols],
     tabs |-> [tabs EXCEPT ![t].ncols = @ + 1]]

\* the property list is a linked list built by prepending: prop[1] is the newest
add_property(obj, name) ==
    [obj EXCEPT !.prop = <<[name |-> name, op |-> NoOp]>> \o @]

\* ------------------------------------------------------------------ pattern compiler
\* A parser state p is [buf, pos, tables, ub]: the pattern's bytes with their
\* terminating NUL (the compiler writes NULs into it), the 1-based position,
\* the table registry, and whether a NULL Prop has been dereferenced.

\* v under the name the LAMBDA gives it: a local variable of the C function
Bind(v, F(_)) == F(v)

PatDelims == {",", "[", "]", "{", "}"}

\* strcspn(buf + pos, ",[]{}")
RECURSIVE strcspn(_, _)
strcspn(buf, pos) ==
    IF buf[pos] = NUL \/ buf[pos] \in PatDelims THEN 0 ELSE 1 + strcspn(buf, pos + 1)

\* the loop over a quoted name: stops at the NUL, or writes a NUL over the
\* closing quote and steps past it
RECURSIVE quoted_name(_, _, _)
quoted_name(buf, pos, esc) ==
    IF buf[pos] = NUL THEN [buf |-> buf, pos |-> pos]
    ELSE IF buf[pos] = "\"" THEN
        IF ~esc THEN [buf |-> [buf EXCEPT ![pos] = NUL], pos |-> pos + 1]
        ELSE quoted_name(buf, pos + 1, FALSE)
    ELSE IF buf[pos] = "\\" THEN quoted_name(buf, pos + 1, ~esc)
    ELSE quoted_name(buf, pos + 1, FALSE)

\* found = FALSE is the NULL Prop; a name is the index its bytes start at
parse_property(p, obj) ==
    IF p.buf[p.pos] = "\"" THEN
        Bind(quoted_name(p.buf, p.pos + 1, FALSE), LAMBDA q :
            [found |-> TRUE,
             p     |-> [p EXCEPT !.buf = q.buf, !.pos = q.pos],
             obj   |-> add_property(obj, p.pos + 1)])
    ELSE
        Bind(strcspn(p.buf, p.pos), LAMBDA n :
            IF n = 0 THEN [found |-> FALSE, p |-> p, obj |-> obj]
            ELSE [found |-> TRUE,
                  p     |-> [p EXCEPT !.pos = p.pos + n],
                  obj   |-> add_property(obj, p.pos)])

RECURSIVE parse_array(_)
RECURSIVE parse_object(_)
RECURSIVE parse_props(_, _)

\* the switch in parse_object: the property's operator, the parser state
\* after it and the object's table; pr is what parse_property returned
parse_inner(pr, obj) ==
    Bind(pr.p.buf[pr.p.pos], LAMBDA c0 :
        CASE c0 \in {",", "}", NUL} ->
                IF ~pr.found THEN [op |-> NoOp, p |-> pr.p, table |-> obj.table]
                ELSE
                    Bind(IF obj.table = 0 THEN new_table(pr.p.tables) ELSE pr.p.tables,
                         LAMBDA tabs1 :
                    Bind(IF obj.table = 0 THEN Len(tabs1) ELSE obj.table, LAMBDA t :
                    Bind(new_collect_op(tabs1, t), LAMBDA c :
                        [op |-> c.op, p |-> [pr.p EXCEPT !.tables = c.tabs], table |-> t])))
          [] c0 \in {"{", "["} ->
                \* prop->op = ... with prop == NULL: a NULL dereference
                IF ~pr.found
                THEN [op |-> NoOp, p |-> [pr.p EXCEPT !.ub = TRUE], table |-> obj.table]
                ELSE Bind(IF c0 = "{" THEN parse_object(pr.p) ELSE parse_array(pr.p),
                          LAMBDA r : [op |-> r.op, p |-> r.p, table |-> obj.table])
          [] OTHER -> [op |-> NoOp, p |-> pr.p, table |-> obj.table])

\* one round of parse_object's do-while loop, and what follows the loop
parse_props(p0, obj0) ==
    Bind(parse_property([p0 EXCEPT !.pos = @ + 1], obj0), LAMBDA pr :
    Bind(parse_inner(pr, obj0), LAMBDA inner :
        IF inner.op.type = "NULL" THEN [op |-> NoOp, p |-> inner.p]
        ELSE
            Bind(inner.p.buf[inner.p.pos], LAMBDA c :
            Bind([inner.p EXCEPT !.buf[pr.p.pos] = NUL], LAMBDA p2 :
            Bind([pr.obj EXCEPT !.table = inner.table, !.prop[1].op = inner.op], LAMBDA obj1 :
                IF c = "," THEN parse_props(p2, obj1)
                ELSE IF c # "}" /\ c # NUL THEN [op |-> NoOp, p |-> p2]
                ELSE IF obj1.prop = <<>> THEN [op |-> NoOp, p |-> p2]
                ELSE [op |-> obj1,
                      p  |-> IF c = "}" THEN [p2 EXCEPT !.pos = @ + 1] ELSE p2])))))

parse_object(p) ==
    IF p.buf[p.pos] # "{" THEN [op |-> NoOp, p |-> p]
    ELSE parse_props(p, new_object_op)

\* what follows the inner production of parse_array; inner is [op, table, p]
parse_array_end(inner) ==
    IF inner.op.type = "NULL" THEN [op |-> NoOp, p |-> inner.p]
    ELSE
        Bind(inner.p.buf[inner.p.pos], LAMBDA d :
        Bind([new_array_op EXCEPT !.table = inner.table, !.next = inner.op], LAMBDA arr :
            CASE d = NUL -> [op |-> arr, p |-> inner.p]
              [] d = "]" -> [op |-> arr, p |-> [inner.p EXCEPT !.pos = @ + 1]]
              [] OTHER   -> [op |-> NoOp, p |-> inner.p]))

parse_array(p) ==
    IF p.buf[p.pos] # "[" THEN [op |-> NoOp, p |-> [p EXCEPT !.pos = @ + 1]]
    ELSE
        Bind([p EXCEPT !.pos = @ + 1], LAMBDA p1 :
        Bind(p1.buf[p1.pos], LAMBDA c :
            CASE c = "*" ->
                    Bind(new_table(p1.tables), LAMBDA tabs1 :
                    Bind(new_collect_op(tabs1, Len(tabs1)), LAMBDA col :
                        parse_array_end(
                            [op |-> col.op, table |-> Len(tabs1),
                             p |-> [p1 EXCEPT !.tables = col.tabs, !.pos = @ + 1]])))
              [] c \in {"[", "{"} ->
                    Bind(IF c = "[" THEN parse_array(p1) ELSE parse_object(p1), LAMBDA r :
                        parse_array_end([op |-> r.op, table |-> 0, p |-> r.p]))
              [] OTHER -> [op |-> NoOp, p |-> p1]))

\* the pending row of a table: ncols zeroed Bufs
EmptyRow(n) == [j \in 1..n |-> <<>>]

\* buf is argv's pattern string with its NUL; what is left over after the
\* top-level array or object is never looked at
parse_pattern(buf) ==
    Bind([buf |-> buf, pos |-> 1, tables |-> <<>>, ub |-> FALSE], LAMBDA p :
    Bind(IF buf[1] = "[" THEN parse_array(p)
         ELSE IF buf[1] = "{" THEN parse_object(p)
         ELSE [op |-> NoOp, p |-> p], LAMBDA r :
        [op     |-> r.op,
         ub     |-> r.p.ub,
         buf    |-> r.p.buf,
         tables |-> IF r.op.type = "NULL" THEN r.p.tables
                    ELSE [i \in 1..Len(r.p.tables) |->
                            [r.p.tables[i] EXCEPT
                                !.newrow = EmptyRow(r.p.tables[i].ncols)]]]))

\* ------------------------------------------------------------------ root selection

\* find_root that stops at the top operator
find_root_top(op) ==
    IF op.type \in {"OP_ARRAY", "OP_OBJECT"}
    THEN [found |-> TRUE, op |-> [op EXCEPT !.isroot = TRUE]]
    ELSE [found |-> FALSE, op |-> op]

RECURSIVE find_root(_)

\* find_root without "or its single property is a Collect"
find_root_multi(op) ==
    CASE op.type = "OP_ARRAY" ->
            IF op.next.type = "OP_COLLECT"
            THEN [found |-> TRUE, op |-> [op EXCEPT !.isroot = TRUE]]
            ELSE Bind(find_root(op.next), LAMBDA r :
                    [found |-> r.found, op |-> [op EXCEPT !.next = r.op]])
      [] op.type = "OP_OBJECT" ->
            IF Len(op.prop) > 1
            THEN [found |-> TRUE, op |-> [op EXCEPT !.isroot = TRUE]]
            ELSE Bind(find_root(op.prop[1].op), LAMBDA r :
                    [found |-> r.found, op |-> [op EXCEPT !.prop[1].op = r.op]])
      [] OTHER -> [found |-> FALSE, op |-> op]

\* find_root's walk; the result carries the tree with isroot set
find_root(op) ==
    CASE op.type = "OP_ARRAY" ->
            IF op.next.type = "OP_COLLECT"
            THEN [found |-> TRUE, op |-> [op EXCEPT !.isroot = TRUE]]
            ELSE Bind(find_root(op.next), LAMBDA r :
                    [found |-> r.found, op |-> [op EXCEPT !.next = r.op]])
      [] op.type = "OP_OBJECT" ->
            IF Len(op.prop) > 1 \/ op.prop[1].op.type = "OP_COLLECT"
            THEN [found |-> TRUE, op |-> [op EXCEPT !.isroot = TRUE]]
            ELSE Bind(find_root(op.prop[1].op), LAMBDA r :
                    [found |-> r.found, op |-> [op EXCEPT !.prop[1].op = r.op]])
      [] OTHER -> [found |-> FALSE, op |-> op]

\* ------------------------------------------------------------------ CharSource
\* The run-time state s is [lx, tables, out, flushlog, calls, err, c, n]: the lexer
\* struct, the table registry, the bytes written to stdout, a log of the
\* flush_tables calls, the message of die() ("" while the process runs), and
\* the values returned by the last read_char and append_digits.
\* lx is [file, fpos, buf, unread, text, token, peek]: the bytes of the open
\* stream and how many of them fread has delivered, the read buffer, the
\* unread slot, the lexeme buffer, the token, and whether lexer.peek is set
\* (it only ever points at lexer.token).

\* sizeof(lexer.buf.data); small, so that documents span several reads
BUFSIZ == 4

die(s, msg) == [s EXCEPT !.err = msg]

\* no call made yet
NoCalls == [rows |-> <<>>, io |-> <<>>, toks |-> <<>>]

\* a call of read_char or unread_char, with the byte returned or pushed
\* back and what the unread slot held when the call was made
io_call(s, fn, c) ==
    [s EXCEPT !.calls.io = Append(@, [fn |-> fn, c |-> c, slot |-> s.lx.unread])]

\* fread into lexer.buf.data: got bytes from the stream's position on
fill_buf(s, got) ==
    Bind(SubSeq(s.lx.file, s.lx.fpos + 1, s.lx.fpos + got), LAMBDA data :
        IF got = 0 THEN [s EXCEPT !.c = NUL, !.lx.buf.len = 0]
        ELSE [s EXCEPT !.c = data[1],
                       !.lx.buf = [data |-> data, i |-> 1, len |-> got],
                       !.lx.fpos = @ + got])

\* read errors (ferror) are not modelled
read_byte(s) ==
    IF s.lx.unread # NUL THEN [s EXCEPT !.c = s.lx.unread, !.lx.unread = NUL]
    ELSE IF s.lx.buf.i >= s.lx.buf.len THEN
        fill_buf(s, IF Len(s.lx.file) - s.lx.fpos < BUFSIZ
                    THEN Len(s.lx.file) - s.lx.fpos ELSE BUFSIZ)
    ELSE [s EXCEPT !.c = s.lx.buf.data[s.lx.buf.i + 1], !.lx.buf.i = @ + 1]

\* read_char, and the record of the call
read_char(s) ==
    Bind(read_byte(s), LAMBDA s1 :
        [io_call(s, "read_char", s1.c) EXCEPT !.c = s1.c, !.lx = s1.lx])

unread_char(s, c) == [io_call(s, "unread_char", c) EXCEPT !.lx.unread = c]

\* the bytes the lexer has taken from the stream and not pushed back
Consumed(lx) ==
    (IF lx.buf.i >= lx.buf.len THEN lx.fpos ELSE lx.fpos - (lx.buf.len - lx.buf.i))
    - (IF lx.unread # NUL THEN 1 ELSE 0)

\* append_char(&lexer.text, c)
append_char(s, c) == [s EXCEPT !.lx.text = Append(@, c)]

\* ------------------------------------------------------------------ Lexer

\* token.text == NULL
NullText == <<NUL>>

WhiteSpace == {" ", "\t", "\n", "\r"}

\* the bytes 0x01..0x1f that the inputs may hold
ControlBytes == {"\t", "\n", "\r", "\f"}

EscapeBytes == {"\"", "\\", "/", "b", "f", "n", "r", "t"}

\* the loop of append_digits with its counter n
RECURSIVE append_digits_from(_, _)

\* append_digits whose loop does not push back the byte that ends the digits
append_digits_eat(s, n) ==
    Bind(read_char(s), LAMBDA s1 :
        IF s1.c = NUL THEN [s1 EXCEPT !.n = n]
        ELSE IF s1.c \in Digits THEN append_digits_from(append_char(s1, s1.c), n + 1)
        ELSE [s1 EXCEPT !.n = n])

append_digits_from(s, n) ==
    Bind(read_char(s), LAMBDA s1 :
        IF s1.c = NUL THEN [s1 EXCEPT !.n = n]
        ELSE IF s1.c \in Digits THEN append_digits_from(append_char(s1, s1.c), n + 1)
        ELSE [unread_char(s1, s1.c) EXCEPT !.n = n])

append_digits(s) == append_digits_from(s, 0)

\* after_exp that takes the end of the stream for the end of the number
after_exp_lenient(s) ==
    Bind(read_char(s), LAMBDA s1 :
        IF s1.c = NUL THEN s1
        ELSE IF s1.c \in {"+", "-"} THEN append_digits(append_char(s1, s1.c))
        ELSE IF s1.c \in Digits THEN append_digits(append_char(s1, s1.c))
        ELSE die(s1, "no exponent digits"))

after_exp(s) ==
    Bind(read_char(s), LAMBDA s1 :
        IF s1.c = NUL THEN die(s1, "no exponent digits")
        ELSE IF s1.c \in {"+", "-"} THEN
            Bind(append_digits(append_char(s1, s1.c)), LAMBDA s2 :
                IF s2.n = 0 THEN die(s2, "no exponent digits") ELSE s2)
        ELSE IF s1.c \in Digits THEN append_digits(append_char(s1, s1.c))
        ELSE die(s1, "no exponent digits"))

after_frac(s) ==
    Bind(append_digits(s), LAMBDA s1 :
        IF s1.n < 1 THEN die(s1, "no digits after fraction")
        ELSE
            Bind(read_char(s1), LAMBDA s2 :
                IF s2.c = NUL THEN s2
                ELSE IF s2.c \in {"e", "E"} THEN after_exp(append_char(s2, s2.c))
                ELSE unread_char(s2, s2.c)))

RECURSIVE after_1to9(_)
after_1to9(s) ==
    Bind(read_char(s), LAMBDA s1 :
        IF s1.c = NUL THEN s1
        ELSE IF s1.c = "." THEN after_frac(append_char(s1, s1.c))
        ELSE IF s1.c \in Digits THEN after_1to9(append_char(s1, s1.c))
        ELSE IF s1.c \in {"e", "E"} THEN after_exp(append_char(s1, s1.c))
        ELSE unread_char(s1, s1.c))

\* after_0 that pushes back whatever ends the number, the 0 of the end of
\* the stream too
after_0_unread(s) ==
    Bind(read_char(s), LAMBDA s1 :
        IF s1.c = "." THEN after_frac(append_char(s1, "."))
        ELSE IF s1.c \in {"e", "E"} THEN after_exp(append_char(s1, s1.c))
        ELSE unread_char(s1, s1.c))

after_0(s) ==
    Bind(read_char(s), LAMBDA s1 :
        IF s1.c = "." THEN after_frac(append_char(s1, "."))
        ELSE IF s1.c \in {"e", "E"} THEN after_exp(append_char(s1, s1.c))
        ELSE IF s1.c # NUL THEN unread_char(s1, s1.c)
        ELSE s1)

after_minus(s) ==
    Bind(read_char(s), LAMBDA s1 :
        IF s1.c = "0" THEN after_0(append_char(s1, s1.c))
        ELSE IF s1.c \in Digits1to9 THEN after_1to9(append_char(s1, s1.c))
        ELSE die(s1, "no digit following minus sign"))

\* the four hex digits after \u; k counts the digits still to read
RECURSIVE after_slash_u(_, _)
after_slash_u(s, k) ==
    IF k = 0 THEN s
    ELSE Bind(read_char(s), LAMBDA s1 :
            IF s1.c \in HexDigits THEN after_slash_u(append_char(s1, s1.c), k - 1)
            ELSE die(s1, "not a hex character"))

after_slash(s) ==
    Bind(read_char(s), LAMBDA s1 :
        IF s1.c \in EscapeBytes THEN append_char(s1, s1.c)
        ELSE IF s1.c = "u" THEN after_slash_u(append_char(s1, "u"), 4)
        ELSE die(s1, "invalid escape character"))

RECURSIVE after_quote(_)

\* after_quote that drops the backslash of an escape sequence
after_quote_decoded(s) ==
    Bind(read_char(s), LAMBDA s1 :
        IF s1.c = NUL THEN die(s1, "non-terminated string")
        ELSE IF s1.c = "\"" THEN s1
        ELSE IF s1.c = "\\" THEN
            Bind(after_slash(s1), LAMBDA s2 :
                IF s2.err # "" THEN s2 ELSE after_quote(s2))
        ELSE IF s1.c \in ControlBytes THEN die(s1, "control character in string")
        ELSE after_quote(append_char(s1, s1.c)))

after_quote(s) ==
    Bind(read_char(s), LAMBDA s1 :
        IF s1.c = NUL THEN die(s1, "non-terminated string")
        ELSE IF s1.c = "\"" THEN s1
        ELSE IF s1.c = "\\" THEN
            Bind(after_slash(append_char(s1, "\\")), LAMBDA s2 :
                IF s2.err # "" THEN s2 ELSE after_quote(s2))
        ELSE IF s1.c \in ControlBytes THEN die(s1, "control character in string")
        ELSE after_quote(append_char(s1, s1.c)))

\* v is the keyword's bytes; k is the index of the next byte to match
RECURSIVE read_literal(_, _, _)
read_literal(s, v, k) ==
    IF k > Len(v) THEN [s EXCEPT !.lx.token.text = v]
    ELSE Bind(read_char(s), LAMBDA s1 :
            IF s1.c # v[k] THEN die(s1, "error matching literal")
            ELSE read_literal(s1, v, k + 1))

RECURSIVE skip_whitespace(_)
skip_whitespace(s) ==
    Bind(read_char(s), LAMBDA s1 :
        IF s1.c \in WhiteSpace THEN skip_whitespace(s1) ELSE s1)

Punctuation ==
    [c \in {"{", "}", ":", ",", "[", "]"} |->
        CASE c = "{" -> "T_BEGINOBJECT"
          [] c = "}" -> "T_ENDOBJECT"
          [] c = ":" -> "T_PAIRSEP"
          [] c = "," -> "T_MEMBERSEP"
          [] c = "[" -> "T_BEGINARRAY"
          [] c = "]" -> "T_ENDARRAY"]

\* t->type = type
set_type(s, type) == [s EXCEPT !.lx.token.type = type]

read_token(s) ==
    Bind(skip_whitespace(s), LAMBDA s1 :
        CASE s1.c = NUL -> set_type(s1, "T_EOF")
          [] s1.c \in DOMAIN Punctuation ->
                [s1 EXCEPT !.lx.token = [type |-> Punctuation[s1.c], text |-> <<s1.c>>]]
          [] s1.c = "t" -> read_literal(set_type(s1, "T_BOOL"), <<"t", "r", "u", "e">>, 2)
          [] s1.c = "f" -> read_literal(set_type(s1, "T_BOOL"), <<"f", "a", "l", "s", "e">>, 2)
          [] s1.c = "n" -> read_literal(set_type(s1, "T_NULL"), <<"n", "u", "l", "l">>, 2)
          [] s1.c = "\"" -> after_quote(set_type(s1, "T_STRING"))
          [] s1.c = "-" -> after_minus(append_char(set_type(s1, "T_NUMBER"), s1.c))
          [] s1.c = "0" -> after_0(append_char(set_type(s1, "T_NUMBER"), s1.c))
          [] s1.c \in Digits1to9 -> after_1to9(append_char(set_type(s1, "T_NUMBER"), s1.c))
          [] OTHER -> die(s1, "unexpected character"))

\* The returned Token* is always &lexer.token: the token is s.lx.token. Its
\* text is kept by value; no caller reads it after a later read_token.
\* a call of next_token or peek_token that returned: the token handed out,
\* whether the call found lexer.peek unset, and the stream position after it
tok_call(s, fn, fresh) ==
    IF s.err # "" THEN s
    ELSE [s EXCEPT !.calls.toks =
              Append(@, [fn |-> fn, type |-> s.lx.token.type, text |-> s.lx.token.text,
                         fresh |-> fresh, pos |-> Consumed(s.lx)])]

next_token(s) ==
    IF s.err # "" THEN s
    ELSE IF s.lx.peek THEN tok_call([s EXCEPT !.lx.peek = FALSE], "next_token", FALSE)
    ELSE
        Bind(read_token([s EXCEPT !.lx.token.text = NullText, !.lx.text = <<>>]), LAMBDA s1 :
            tok_call(IF s1.err = "" /\ s1.lx.token.text = NullText
                     THEN [s1 EXCEPT !.lx.token.text = s1.lx.text]
                     ELSE s1, "next_token", TRUE))

\* peek_token that hands the token out and does not keep it in lexer.peek
peek_token_nocache(s) ==
    IF s.err # "" THEN s
    ELSE IF ~s.lx.peek
    THEN tok_call(next_token(s), "peek_token", TRUE)
    ELSE tok_call(s, "peek_token", FALSE)

peek_token(s) ==
    IF s.err # "" THEN s
    ELSE IF ~s.lx.peek
    THEN tok_call([next_token(s) EXCEPT !.lx.peek = TRUE], "peek_token", TRUE)
    ELSE tok_call(s, "peek_token", FALSE)

\* ------------------------------------------------------------------ tables

\* const char *fieldsep = "\t"
fieldsep == <<"\t">>

\* the Buf is emptied when it holds bytes, then val is copied when it has any
add_value(tabs, t, column, val) ==
    [tabs EXCEPT ![t].newrow[column + 1] =
        IF Len(val) > 0 THEN val ELSE IF Len(@) > 0 THEN <<>> ELSE @]

\* add_row that promotes the pending row and goes on using it, its cells
\* still set, as the next pending row
add_row_keep(tabs, t) ==
    IF \E i \in 1..tabs[t].ncols : Len(tabs[t].newrow[i]) > 0
    THEN [tabs EXCEPT ![t].rows   = IF tabs[t].nrows < Len(@)
                                    THEN [@ EXCEPT ![tabs[t].nrows + 1] = tabs[t].newrow]
                                    ELSE Append(@, tabs[t].newrow),
                      ![t].nrows  = @ + 1]
    ELSE tabs

\* add_row without the test for a value in the pending row
add_row_always(tabs, t) ==
    [tabs EXCEPT ![t].rows   = IF tabs[t].nrows < Len(@)
                               THEN [@ EXCEPT ![tabs[t].nrows + 1] = tabs[t].newrow]
                               ELSE Append(@, tabs[t].newrow),
                 ![t].nrows  = @ + 1,
                 ![t].newrow = EmptyRow(tabs[t].ncols)]

\* rows[] keeps its old entries past nrows; only rows[0..nrows) are live
add_row(tabs, t) ==
    IF \E i \in 1..tabs[t].ncols : Len(tabs[t].newrow[i]) > 0
    THEN [tabs EXCEPT ![t].rows   = IF tabs[t].nrows < Len(@)
                                    THEN [@ EXCEPT ![tabs[t].nrows + 1] = tabs[t].newrow]
                                    ELSE Append(@, tabs[t].newrow),
                      ![t].nrows  = @ + 1,
                      ![t].newrow = EmptyRow(tabs[t].ncols)]
    ELSE tabs

\* the bytes emit_row writes from column j of table i on (both 1-based)
RECURSIVE emit_cells(_, _, _, _)

\* emit_row that passes over a table without completed rows
emit_cells_skip(tabs, rowindex, i, j) ==
    IF i > Len(tabs) THEN <<"\n">>
    ELSE IF j > tabs[i].ncols \/ tabs[i].nrows = 0 THEN emit_cells(tabs, rowindex, i + 1, 1)
    ELSE
        (IF i > 1 \/ j > 1 THEN fieldsep ELSE <<>>)
        \o tabs[i].rows[rowindex[i] + 1][j]
        \o emit_cells(tabs, rowindex, i, j + 1)

emit_cells(tabs, rowindex, i, j) ==
    IF i > Len(tabs) THEN <<"\n">>
    ELSE IF j > tabs[i].ncols THEN emit_cells(tabs, rowindex, i + 1, 1)
    ELSE
        (IF i > 1 \/ j > 1 THEN fieldsep ELSE <<>>)
        \o (IF tabs[i].nrows > 0 THEN tabs[i].rows[rowindex[i] + 1][j] ELSE <<>>)
        \o emit_cells(tabs, rowindex, i, j + 1)

emit_row(tabs, rowindex) == emit_cells(tabs, rowindex, 1, 1)

\* nrows: the product of the non-zero row counts of tables 1..k
RECURSIVE flush_nrows(_, _)
flush_nrows(tabs, k) ==
    IF k = 0 THEN 1
    ELSE (IF tabs[k].nrows > 0 THEN tabs[k].nrows ELSE 1) * flush_nrows(tabs, k - 1)

\* flush_rowindex one line ahead
flush_rowindex_next(tabs, i) ==
    [j \in 1..Len(tabs) |-> IF tabs[j].nrows > 0 THEN (i + 1) % tabs[j].nrows ELSE 0]

\* rowindex for output line i (0-based)
flush_rowindex(tabs, i) ==
    [j \in 1..Len(tabs) |-> IF tabs[j].nrows > 0 THEN i % tabs[j].nrows ELSE 0]

\* the bytes of output lines i..nrows-1
RECURSIVE flush_emit(_, _, _)
flush_emit(tabs, i, nrows) ==
    IF i >= nrows THEN <<>>
    ELSE emit_row(tabs, flush_rowindex(tabs, i)) \o flush_emit(tabs, i + 1, nrows)

\* flush_tables without the reset of the row counts
flush_reset_none(tabs) == tabs

\* what flush_tables leaves of the tables: every nrows is 0
flush_reset(tabs) == [i \in 1..Len(tabs) |-> [tabs[i] EXCEPT !.nrows = 0]]

\* flushlog records each call: the tables as they were, the bytes written,
\* and the tables as the call leaves them
flush_tables(s) ==
    IF ~\E i \in 1..Len(s.tables) : s.tables[i].nrows > 0
    THEN [s EXCEPT !.flushlog = Append(@, [tables |-> s.tables, bytes |-> <<>>,
                                           after |-> s.tables])]
    ELSE
        Bind(flush_emit(s.tables, 0, flush_nrows(s.tables, Len(s.tables))), LAMBDA bytes :
            [s EXCEPT !.out      = @ \o bytes,
                      !.tables   = flush_reset(s.tables),
                      !.flushlog = Append(@, [tables |-> s.tables, bytes |-> bytes,
                                              after  |-> flush_reset(s.tables)])])

\* ------------------------------------------------------------------ runtime

is_literal(type) == type \in {"T_NULL", "T_BOOL", "T_NUMBER", "T_STRING"}

accept(s, type) ==
    Bind(next_token(s), LAMBDA s1 :
        IF s1.err # "" THEN s1
        ELSE IF s1.lx.token.type # type THEN die(s1, "unexpected token type")
        ELSE s1)

RECURSIVE skip_value(_)
RECURSIVE skip_array_loop(_)
RECURSIVE skip_object_loop(_)

\* the do-while loop of skip_array and the check after it
skip_array_loop(s) ==
    Bind(next_token(skip_value(s)), LAMBDA s1 :
        IF s1.err # "" THEN s1
        ELSE IF s1.lx.token.type = "T_MEMBERSEP" THEN skip_array_loop(s1)
        ELSE IF s1.lx.token.type # "T_ENDARRAY" THEN die(s1, "expected array end")
        ELSE s1)

skip_array(s) ==
    Bind(peek_token(accept(s, "T_BEGINARRAY")), LAMBDA s1 :
        IF s1.err # "" THEN s1
        ELSE IF s1.lx.token.type = "T_ENDARRAY" THEN next_token(s1)
        ELSE skip_array_loop(s1))

\* the do-while loop of skip_object and the check after it
skip_object_loop(s) ==
    Bind(next_token(skip_value(accept(accept(s, "T_STRING"), "T_PAIRSEP"))), LAMBDA s1 :
        IF s1.err # "" THEN s1
        ELSE IF s1.lx.token.type = "T_MEMBERSEP" THEN skip_object_loop(s1)
        ELSE IF s1.lx.token.type # "T_ENDOBJECT" THEN die(s1, "expected object end")
        ELSE s1)

skip_object(s) ==
    Bind(peek_token(accept(s, "T_BEGINOBJECT")), LAMBDA s1 :
        IF s1.err # "" THEN s1
        ELSE IF s1.lx.token.type = "T_ENDOBJECT" THEN next_token(s1)
        ELSE skip_object_loop(s1))

\* skip_value that leaves a literal in the peek cache
skip_value_peek(s) ==
    Bind(peek_token(s), LAMBDA s1 :
        IF s1.err # "" THEN s1
        ELSE IF s1.lx.token.type = "T_BEGINARRAY" THEN skip_array(s1)
        ELSE IF s1.lx.token.type = "T_BEGINOBJECT" THEN skip_object(s1)
        ELSE IF ~is_literal(s1.lx.token.type) THEN die(s1, "unexpected token type")
        ELSE s1)

skip_value(s) ==
    Bind(peek_token(s), LAMBDA s1 :
        IF s1.err # "" THEN s1
        ELSE IF s1.lx.token.type = "T_BEGINARRAY" THEN skip_array(s1)
        ELSE IF s1.lx.token.type = "T_BEGINOBJECT" THEN skip_object(s1)
        ELSE IF ~is_literal(s1.lx.token.type) THEN die(s1, "unexpected token type")
        ELSE next_token(s1))

run_collect_op(op, s) ==
    Bind(peek_token(s), LAMBDA s1 :
        IF s1.err # "" THEN s1
        ELSE IF s1.lx.token.type = "T_BEGINARRAY" THEN skip_array(s1)
        ELSE IF s1.lx.token.type = "T_BEGINOBJECT" THEN skip_object(s1)
        ELSE IF ~is_literal(s1.lx.token.type) THEN die(s1, "unexpected token type")
        ELSE next_token([s1 EXCEPT !.tables =
                            add_value(@, op.table, op.column, s1.lx.token.text)]))

\* strncmp(name, key, strlen(name)) == 0: the name is a prefix of the key
strcmp_prefix(buf, name, key) ==
    /\ Len(key) >= Len(CStr(buf, name))
    /\ SubSeq(key, 1, Len(CStr(buf, name))) = CStr(buf, name)

\* strcmp(name, key) == 0, the name being the C string at buf[name]
strcmp_eq(buf, name, key) == CStr(buf, name) = key

\* the first property, from the head of the list, whose name equals the
\* key; 0 is the NULL Prop
find_prop(props, buf, key) ==
    Bind({k \in 1..Len(props) : strcmp_eq(buf, props[k].name, key)}, LAMBDA hits :
        IF hits = {} THEN 0 ELSE CHOOSE k \in hits : \A h \in hits : k <= h)

\* add_row(op->op.table) when the operator has a table
add_row_if(op, s) ==
    IF s.err = "" /\ op.table # 0
    THEN [s EXCEPT !.tables = add_row(@, op.table),
                   !.calls.rows = Append(@, [t      |-> op.table,
                                             before |-> s.tables,
                                             after  |-> add_row(s.tables, op.table)])]
    ELSE s

\* flush_tables() when the operator is the root
flush_if(op, s) == IF s.err = "" /\ op.isroot THEN flush_tables(s) ELSE s

RECURSIVE run_op(_, _, _)
RECURSIVE run_array_loop(_, _, _)
RECURSIVE run_object_loop(_, _, _)

\* the do-while loop of run_array_op and what follows it
run_array_loop(op, buf, s) ==
    Bind(next_token(add_row_if(op, run_op(op.next, buf, s))), LAMBDA s1 :
        IF s1.err # "" THEN s1
        ELSE IF s1.lx.token.type = "T_MEMBERSEP" THEN run_array_loop(op, buf, s1)
        ELSE IF s1.lx.token.type # "T_ENDARRAY" THEN die(s1, "expected array end")
        ELSE flush_if(op, add_row_if(op, s1)))

run_array_op(op, buf, s) ==
    Bind(peek_token(s), LAMBDA s1 :
        IF s1.err # "" THEN s1
        ELSE IF s1.lx.token.type = "T_BEGINARRAY" THEN
            Bind(peek_token(accept(s1, "T_BEGINARRAY")), LAMBDA s2 :
                IF s2.err # "" THEN s2
                ELSE IF s2.lx.token.type = "T_ENDARRAY" THEN next_token(s2)
                ELSE run_array_loop(op, buf, s2))
        ELSE skip_value(s1))

\* the value of the member whose key is the current token: run the
\* matching property's operator, or skip the value
run_member(op, buf, p, s) ==
    IF p # 0 THEN run_op(op.prop[p].op, buf, s) ELSE skip_value(s)

\* the while loop of run_object_op; s.lx.token is the token t of its test
run_object_loop(op, buf, s) ==
    IF s.err # "" \/ s.lx.token.type # "T_STRING" THEN s
    ELSE
        Bind(find_prop(op.prop, buf, s.lx.token.text), LAMBDA p :
        Bind(next_token(run_member(op, buf, p, accept(s, "T_PAIRSEP"))), LAMBDA s1 :
            IF s1.err # "" \/ s1.lx.token.type # "T_MEMBERSEP" THEN s1
            ELSE run_object_loop(op, buf, next_token(s1))))

run_object_op(op, buf, s) ==
    Bind(peek_token(s), LAMBDA s1 :
        IF s1.err # "" THEN s1
        ELSE IF s1.lx.token.type # "T_BEGINOBJECT" THEN skip_value(s1)
        ELSE
            Bind(run_object_loop(op, buf, next_token(accept(s1, "T_BEGINOBJECT"))), LAMBDA s2 :
                IF s2.err # "" THEN s2
                ELSE IF s2.lx.token.type # "T_ENDOBJECT" THEN die(s2, "expected object end")
                ELSE flush_if(op, add_row_if(op, s2))))

\* buf is the pattern's memory, which holds the property names
run_op(op, buf, s) ==
    IF s.err # "" THEN s
    ELSE CASE op.type = "OP_ARRAY"   -> run_array_op(op, buf, s)
           [] op.type = "OP_OBJECT"  -> run_object_op(op, buf, s)
           [] op.type = "OP_COLLECT" -> run_collect_op(op, s)

\* ------------------------------------------------------------------ inputs
\* A document is a tree [k, key, b, e]: k is "lit", "arr" or "obj"; b is the
\* bytes of a literal; e is the elements or members; key is the member's key
\* when the value is a member of an object. Ser writes it as the bytes of
\* the stream.

Lit(b) == [k |-> "lit", key |-> <<>>, b |-> b, e |-> <<>>]

Arr(e) == [k |-> "arr", key |-> <<>>, b |-> <<>>, e |-> e]

Obj(e) == [k |-> "obj", key |-> <<>>, b |-> <<>>, e |-> e]

Keyed(key, v) == [v EXCEPT !.key = key]

DigitOf == <<"1", "2", "3", "4", "5", "6", "7", "8", "9">>

Num(i) == Lit(<<DigitOf[i]>>)

Str(bytes) == Lit(<<"\"">> \o bytes \o <<"\"">>)

RECURSIVE Ser(_)
RECURSIVE SerList(_, _, _)
SerList(e, i, keyed) ==
    IF i > Len(e) THEN <<>>
    ELSE (IF i > 1 THEN <<",">> ELSE <<>>)
         \o (IF keyed THEN <<"\"">> \o e[i].key \o <<"\"", ":">> ELSE <<>>)
         \o Ser(e[i]) \o SerList(e, i + 1, keyed)

Ser(v) ==
    CASE v.k = "lit" -> v.b
      [] v.k = "arr" -> <<"[">> \o SerList(v.e, 1, FALSE) \o <<"]">>
      [] v.k = "obj" -> <<"{">> \o SerList(v.e, 1, TRUE) \o <<"}">>

\* the bytes of a stream: its documents, one space between two
RECURSIVE Stream(_)
Stream(docs) ==
    IF docs = <<>> THEN <<>>
    ELSE IF Len(docs) = 1 THEN Ser(docs[1])
    ELSE Ser(docs[1]) \o <<" ">> \o Stream(Tail(docs))

SeqsUpTo(S, n) == UNION {[1..k -> S] : k \in 0..n}

SeqsFrom1(S, n) == UNION {[1..k -> S] : k \in 1..n}

Reverse(q) == [i \in 1..Len(q) |-> q[Len(q) + 1 - i]]

RECURSIVE ConcatAll(_)
ConcatAll(seqs) == IF seqs = <<>> THEN <<>> ELSE Head(seqs) \o ConcatAll(Tail(seqs))

\* an object pattern from its properties [name, arr]: name or name[*]
RECURSIVE PatProps(_, _)
PatProps(props, i) ==
    IF i > Len(props) THEN <<>>
    ELSE (IF i > 1 THEN <<",">> ELSE <<>>)
         \o props[i].name \o (IF props[i].arr THEN <<"[", "*", "]">> ELSE <<>>)
         \o PatProps(props, i + 1)

PatObj(props) == <<"{">> \o PatProps(props, 1) \o <<"}">>

Scalar(name) == [name |-> name, arr |-> FALSE]

Star(name) == [name |-> name, arr |-> TRUE]

Input(fam, pat, props, files, stdin) ==
    [fam |-> fam, pat |-> pat, props |-> props, files |-> files, stdin |-> stdin]

\* family A: {u[*],r[*]} and {u[*],r[*],v[*]} on one object whose arrays
\* hold 0..MaxElems scalars
NumArr(n, from) == Arr([i \in 1..n |-> Num(from + i)])

PropsA2 == <<Star(<<"u">>), Star(<<"r">>)>>

PropsA3 == <<Star(<<"u">>), Star(<<"r">>), Star(<<"v">>)>>

DocA2(m, n) ==
    Obj(<<Keyed(<<"u">>, NumArr(m, 0)), Keyed(<<"r">>, NumArr(n, MaxElems + 1))>>)

DocA3(m, n, l) ==
    Obj(<<Keyed(<<"u">>, NumArr(m, 0)), Keyed(<<"r">>, NumArr(n, MaxElems + 1)),
          Keyed(<<"v">>, Arr([i \in 1..l |-> Str(<<"z">>)]))>>)

FamilyA ==
    {Input("A", PatObj(PropsA2), PropsA2, <<>>, <<DocA2(m, n)>>) :
        m \in 0..MaxElems, n \in 0..MaxElems}
    \cup
    {Input("A", PatObj(PropsA3), PropsA3, <<>>, <<DocA3(m, n, l)>>) :
        m \in 0..MaxElems, n \in 0..MaxElems, l \in 0..1}

\* family B: [{id,vals[*]}] on an array of 1..MaxElems objects, each with one
\* id and one non-empty vals, in either order
PatB == <<"[", "{", "i", "d", ",", "v", "a", "l", "s", "[", "*", "]", "}", "]">>

ObjB(id, n, idfirst) ==
    LET i == Keyed(<<"i", "d">>, Str(<<id>>))
        v == Keyed(<<"v", "a", "l", "s">>, NumArr(n, IF id = "a" THEN 0 ELSE MaxElems + 1))
    IN Obj(IF idfirst THEN <<i, v>> ELSE <<v, i>>)

ObjsB == {ObjB(id, n, f) : id \in {"a", "b"}, n \in 1..MaxElems, f \in BOOLEAN}

FamilyB == {Input("B", PatB, <<>>, <<>>, <<Arr(e)>>) : e \in SeqsFrom1(ObjsB, MaxElems)}

\* family C: {x,y} and {y,x} on objects of up to MaxElems + 1 members, with
\* keys that are, contain or are contained in the names
PropsC == {<<Scalar(<<"x">>), Scalar(<<"y">>)>>, <<Scalar(<<"y">>), Scalar(<<"x">>)>>}

MembersC ==
    {Keyed(<<"x">>, Num(1)), Keyed(<<"y">>, Num(2)), Keyed(<<"x">>, Str(<<"v">>)),
     Keyed(<<"x", "y">>, Num(3)),
     Keyed(<<"q">>, Obj(<<Keyed(<<"d", "e", "e", "p">>,
                                Arr(<<Num(9), Obj(<<Keyed(<<"x">>, Num(8))>>)>>))>>))}

FamilyC ==
    {Input("C", PatObj(pr), pr, <<>>, <<Obj(e)>>) :
        pr \in PropsC, e \in SeqsUpTo(MembersC, MaxElems + 1)}

\* family D: object patterns that mix scalar properties and one name[*], on
\* an object that has every property once, in pattern order or reversed
PropsD ==
    {<<Scalar(<<"x">>), Star(<<"r">>)>>, <<Star(<<"r">>), Scalar(<<"x">>)>>,
     <<Scalar(<<"x">>), Star(<<"r">>), Scalar(<<"y">>)>>,
     <<Scalar(<<"a">>), Scalar(<<"b">>)>>, <<Scalar(<<"b">>), Scalar(<<"a">>)>>,
     <<Scalar(<<"y">>), Scalar(<<"x">>), Scalar(<<"a">>)>>}

LetterNum(name) ==
    CASE name = <<"x">> -> 1 [] name = <<"y">> -> 2 [] name = <<"a">> -> 3
      [] name = <<"b">> -> 4 [] OTHER -> 5

DocD(props, n, rev) ==
    LET e == [i \in 1..Len(props) |->
                Keyed(props[i].name,
                      IF props[i].arr THEN NumArr(n, 5) ELSE Num(LetterNum(props[i].name)))]
    IN Obj(IF rev THEN Reverse(e) ELSE e)

FamilyD ==
    {Input("D", PatObj(pr), pr, <<>>, <<DocD(pr, n, rev)>>) :
        pr \in PropsD, n \in 1..MaxElems, rev \in BOOLEAN}

\* family E: streams of up to MaxDocs values of every kind under patterns
\* whose top operator is an object or an array
ValuesE ==
    {Num(1), Lit(<<"-", "0", ".", "5", "e", "1">>), Str(<<"s">>), Lit(<<"t", "r", "u", "e">>),
     Lit(<<"n", "u", "l", "l">>),
     Arr(<<>>), Arr(<<Num(7)>>), Arr(<<Num(1), Arr(<<Num(2)>>), Obj(<<Keyed(<<"a">>, Num(3))>>)>>),
     Arr(<<Obj(<<Keyed(<<"a">>, Num(7))>>)>>),
     Arr(<<Str(<<>>), Num(5)>>), Obj(<<Keyed(<<"a">>, Num(7)), Keyed(<<"a">>, Str(<<>>))>>),
     Obj(<<>>), Obj(<<Keyed(<<"a">>, Num(7))>>),
     Obj(<<Keyed(<<"b">>, Arr(<<Num(1), Obj(<<>>)>>)), Keyed(<<"a">>, Arr(<<Num(8), Num(9)>>))>>)}

PatsE ==
    {<<"{", "a", "}">>, <<"[", "*", "]">>, <<"[", "{", "a", "}", "]">>,
     <<"{", "a", "[", "*", "]", "}">>, <<"[", "[", "*", "]">>}

FamilyE ==
    {Input("E", pat, <<>>, <<>>, docs) : pat \in PatsE, docs \in SeqsFrom1(ValuesE, MaxDocs)}

\* family F: streams of up to MaxDocs + 1 documents for the patterns of
\* families A, B and C
DocsF(pat) ==
    CASE pat = PatB ->
            {Arr(<<ObjB("a", MaxElems, TRUE)>>), Arr(<<ObjB("b", 1, FALSE), ObjB("a", 1, TRUE)>>),
             Arr(<<>>)}
      [] pat = PatObj(PropsA2) -> {DocA2(1, MaxElems), DocA2(MaxElems, 0), DocA2(0, 0)}
      [] OTHER ->
            {Obj(<<Keyed(<<"x">>, Num(1))>>),
             Obj(<<Keyed(<<"y">>, Num(2)), Keyed(<<"x">>, Str(<<"v">>))>>), Num(7)}

PatsF == {PatB, PatObj(PropsA2), <<"{", "x", ",", "y", "}">>}

FamilyF ==
    UNION {{Input("F", pat, <<>>, <<>>, docs) : docs \in SeqsFrom1(DocsF(pat), MaxDocs + 1)} :
            pat \in PatsF}

\* family G: 1..MaxFiles FILE arguments under [*]
FilesG == {<<Arr(<<Num(1)>>)>>, <<Arr(<<Num(2), Num(3)>>), Arr(<<Num(4)>>)>>}

FamilyG ==
    {Input("G", <<"[", "*", "]">>, <<>>, files, <<>>) : files \in SeqsFrom1(FilesG, MaxFiles)}

Inputs == FamilyA \cup FamilyB \cup FamilyC \cup FamilyD \cup FamilyE \cup FamilyF \cup FamilyG

\* every pattern string of up to MaxPatLen bytes over PatAlphabet
PatAlphabet == {"[", "]", "{", "}", ",", "*", "a", "\"", "\\"}

PatInputs ==
    {Input("P", pat, <<>>, <<>>, <<>>) : pat \in SeqsUpTo(PatAlphabet, MaxPatLen)}

\* ------------------------------------------------------------------ main

\* the lexer struct of a fresh process: all zero
Lexer0 ==
    [file |-> <<>>, fpos |-> 0, buf |-> [data |-> <<>>, i |-> 0, len |-> 0],
     unread |-> NUL, text |-> <<>>,
     token |-> [type |-> "T_BEGINOBJECT", text |-> NullText], peek |-> FALSE]

InitWith(in) ==
    /\ pc = "parse"
    /\ input \in in
    /\ patbuf = input.pat \o <<NUL>>
    /\ head = NoOp
    /\ tables = <<>>
    /\ lexer = Lexer0
    /\ argi = 1
    /\ out = <<>>
    /\ err = ""
    /\ runs = 0
    /\ flushlog = <<>>
    /\ calls = NoCalls

Init == InitWith(Inputs)

InitPat == InitWith(PatInputs)

\* what the store through the NULL Prop can end in: the process is killed,
\* or (where page 0 is writable) the object is found to have no property
UBOutcomes == {"segv", "exit1"}

\* head = parse_pattern(argv[argi++]); if (head == NULL) die(...)
ParsePattern ==
    /\ pc = "parse"
    /\ \E r \in {parse_pattern(patbuf)} :
       IF r.ub THEN
            /\ pc' \in UBOutcomes
            /\ err' = IF pc' = "exit1" THEN "invalid pattern" ELSE ""
            /\ UNCHANGED <<head, tables>>
            /\ patbuf' = r.buf
       ELSE IF r.op.type = "NULL" THEN
            /\ pc' = "exit1"
            /\ err' = "invalid pattern"
            /\ patbuf' = r.buf
            /\ tables' = r.tables
            /\ UNCHANGED head
       ELSE
            /\ pc' = "find_root"
            /\ head' = r.op
            /\ tables' = r.tables
            /\ patbuf' = r.buf
            /\ UNCHANGED err
    /\ UNCHANGED <<input, lexer, argi, out, runs, flushlog, calls>>

\* if (!find_root(head)) abort();
FindRoot ==
    /\ pc = "find_root"
    /\ \E r \in {find_root(head)} :
       /\ head' = r.op
       /\ pc' = IF r.found THEN "open" ELSE "abort"
    /\ UNCHANGED <<input, patbuf, tables, lexer, argi, out, err, runs, flushlog, calls>>

\* argi == argc: lexer.file = stdin
OpenStdin ==
    /\ pc = "open"
    /\ input.files = <<>>
    /\ lexer' = [lexer EXCEPT !.file = Stream(input.stdin), !.fpos = 0]
    /\ pc' = "run"
    /\ UNCHANGED <<input, patbuf, head, tables, argi, out, err, runs, flushlog, calls>>

\* lexer.file = fopen(argv[argi], "r")
OpenFile ==
    /\ pc = "open"
    /\ input.files # <<>>
    /\ lexer' = [lexer EXCEPT !.file = Stream(input.files[argi]), !.fpos = 0]
    /\ pc' = "run"
    /\ UNCHANGED <<input, patbuf, head, tables, argi, out, err, runs, flushlog, calls>>

State ==
    [lx |-> lexer, tables |-> tables, out |-> out, flushlog |-> flushlog, calls |-> calls,
     err |-> "", c |-> NUL, n |-> 0]

\* run_op(head) in the do-while loops of main
RunTop ==
    /\ pc = "run"
    /\ \E s \in {run_op(head, patbuf, State)} :
       /\ lexer' = s.lx
       /\ tables' = s.tables
       /\ out' = s.out
       /\ flushlog' = s.flushlog
       /\ calls' = s.calls
       /\ err' = s.err
       /\ pc' = IF s.err # "" THEN "exit1" ELSE "peek"
    /\ runs' = runs + 1
    /\ UNCHANGED <<input, patbuf, head, argi>>

\* t = peek_token(); while (t->type != T_EOF)
PeekTop ==
    /\ pc = "peek"
    /\ \E s \in {peek_token(State)} :
       /\ lexer' = s.lx
       /\ err' = s.err
       /\ calls' = s.calls
       /\ pc' = IF s.err # "" THEN "exit1"
                ELSE IF s.lx.token.type # "T_EOF" THEN "run"
                ELSE IF input.files = <<>> THEN "exit0"
                ELSE "close"
    /\ UNCHANGED <<input, patbuf, head, tables, argi, out, runs, flushlog>>

\* fclose(lexer.file); argi++; argi < argc
CloseFile ==
    /\ pc = "close"
    /\ argi' = argi + 1
    /\ pc' = IF argi + 1 <= Len(input.files) THEN "open" ELSE "exit0"
    /\ UNCHANGED <<input, patbuf, head, tables, lexer, out, err, runs, flushlog, calls>>

Next ==
    \/ ParsePattern
    \/ FindRoot
    \/ OpenStdin
    \/ OpenFile
    \/ RunTop
    \/ PeekTop
    \/ CloseFile

Spec == Init /\ [][Next]_vars

NextPat ==
    \/ ParsePattern
    \/ FindRoot

SpecPat == InitPat /\ [][NextPat]_vars

\* ------------------------------------------------------------------ the lexer alone
\* The calls the operators make on the lexer, one at a time, in any order:
\* next_token, peek_token, and first of all, or not at all, run_collect_op
\* of the Collect operator of [*].

PatStar == <<"[", "*", "]">>

\* a stream whose bytes are text
Raw(fam, text) == Input(fam, PatStar, <<>>, <<>>, <<Lit(text)>>)

\* family N: a number literal (sign, integer part, fraction, exponent) and
\* the byte after it, or the end of the stream
Signs == {<<>>, <<"-">>}

IntParts == {<<"0">>, <<"7">>, <<"1", "0">>}

FracParts == {<<>>, <<".", "0", "5">>}

ExpParts == {<<>>, <<"e", "5">>, <<"E", "+", "1">>, <<"e", "-", "1", "0">>}

NumberLiterals ==
    {sg \o ip \o fp \o ep : sg \in Signs, ip \in IntParts, fp \in FracParts, ep \in ExpParts}

NonNumberBytes == {" ", ",", "]", "}", "x", "\""}

Followers == {<<>>} \cup {<<b>> : b \in NonNumberBytes}

FamilyN == {Raw("N", num \o f) : num \in NumberLiterals, f \in Followers}

\* family S: a quote, up to MaxElems pieces (a plain byte, an escape
\* sequence, a broken escape sequence, a control byte), and a closing quote
\* or the end of the stream
StrPieces ==
    {<<"a">>, <<"\\", "\"">>, <<"\\", "\\">>, <<"\\", "/">>, <<"\\", "n">>,
     <<"\\", "u", "1", "a", "F", "0">>,
     <<"\\", "x">>, <<"\\", "u", "1", "g">>, <<"\\", "u", "1", "2">>, <<"\n">>, <<"\t">>}

FamilyS ==
    {Raw("S", <<"\"">> \o ConcatAll(body) \o close) :
        body \in SeqsUpTo(StrPieces, MaxElems), close \in {<<>>, <<"\"">>}}

\* family R: a stream of 1..MaxNumLen bytes of numbers that starts as a
\* number does, and ends where the stream ends
NumberBytes == {"-", "0", "1", ".", "e"}

FamilyR ==
    {Raw("R", <<b>> \o rest) :
        b \in {"-", "0", "1"}, rest \in SeqsUpTo(NumberBytes, MaxNumLen - 1)}

\* family T: 0..MaxDocs + 1 tokens, one space between two
TokenLits ==
    {Lit(<<"[">>), Lit(<<"]">>), Lit(<<"1", "2">>), Str(<<"s">>), Lit(<<"0">>)}

FamilyT ==
    {Input("T", PatStar, <<>>, <<>>, toks) : toks \in SeqsUpTo(TokenLits, MaxDocs + 1)}

LexInputs == FamilyN \cup FamilyS \cup FamilyR \cup FamilyT

InitLex == InitWith(LexInputs)

\* the peek_token calls among the calls made so far
PeekCalls(log) == Len(SelectSeq(log, LAMBDA e : e.fn = "peek_token"))

\* t = next_token(); nothing is read after the T_EOF token
LexNext ==
    /\ pc = "run"
    /\ \E s \in {next_token(State)} :
       /\ lexer' = s.lx
       /\ err' = s.err
       /\ calls' = s.calls
       /\ pc' = IF s.err # "" THEN "exit1"
                ELSE IF s.lx.token.type = "T_EOF" THEN "eof"
                ELSE "run"
    /\ UNCHANGED <<input, patbuf, head, tables, argi, out, runs, flushlog>>

\* t = peek_token()
LexPeek ==
    /\ pc = "run"
    /\ PeekCalls(calls.toks) < MaxPeeks
    /\ \E s \in {peek_token(State)} :
       /\ lexer' = s.lx
       /\ err' = s.err
       /\ calls' = s.calls
       /\ pc' = IF s.err # "" THEN "exit1" ELSE "run"
    /\ UNCHANGED <<input, patbuf, head, tables, argi, out, runs, flushlog>>

\* run_collect_op(op) with the Collect operator of [*], on the first value
\* of the stream
LexCollect ==
    /\ pc = "run"
    /\ head.type = "OP_ARRAY"
    /\ calls.toks = <<>>
    /\ \E s \in {run_collect_op(head.next, State)} :
       /\ lexer' = s.lx
       /\ tables' = s.tables
       /\ err' = s.err
       /\ calls' = s.calls
       /\ pc' = IF s.err # "" THEN "exit1" ELSE "run"
    /\ runs' = runs + 1
    /\ UNCHANGED <<input, patbuf, head, argi, out, flushlog>>

NextLex ==
    \/ ParsePattern
    \/ FindRoot
    \/ OpenStdin
    \/ LexNext
    \/ LexPeek
    \/ LexCollect

SpecLex == InitLex /\ [][NextLex]_vars

\* ------------------------------------------------------------------ streams of any bytes
\* The program on streams that need not be well-formed.

\* family O: an opening brace or bracket, up to MaxElems + 1 pieces of
\* members, elements and punctuation, and the closing byte or the end of
\* the stream
ObjPieces ==
    {<<"\"", "a", "\"", ":", "1">>, <<",">>, <<"\"", "b", "\"", ":", "{", "}">>,
     <<"\"", "a", "\"">>, <<":">>, <<"1">>}

ArrPieces == {<<"1">>, <<",">>, <<"[", "]">>, <<"{", "\"", "a", "\"", ":", "1", ",", "}">>, <<":">>}

PatA == <<"{", "a", "}">>

PatArrA == <<"[", "{", "a", "}", "]">>

FamilyO ==
    {Input("O", PatA, <<>>, <<>>, <<Lit(<<"{">> \o ConcatAll(body) \o close)>>) :
        body \in SeqsUpTo(ObjPieces, MaxElems + 1), close \in {<<>>, <<"}">>}}
    \cup
    {Input("O", pat, <<>>, <<>>, <<Lit(<<"[">> \o ConcatAll(body) \o close)>>) :
        pat \in {PatStar, PatArrA},
        body \in SeqsUpTo(ArrPieces, MaxElems + 1), close \in {<<>>, <<"]">>}}

\* family W: a stream without a value, empty or of white space only, on
\* stdin or as the one FILE argument
Blanks == {<<>>, <<Lit(<<" ">>)>>, <<Lit(<<"\n">>)>>, <<Lit(<<" ", "\t", "\r", "\n">>)>>}

FamilyW ==
    {Input("W", pat, <<>>, <<>>, blank) : pat \in {PatStar, PatA}, blank \in Blanks}
    \cup
    {Input("W", pat, <<>>, <<blank>>, <<>>) : pat \in {PatStar, PatA}, blank \in Blanks}

\* family V: 1..MaxDocs values and a newline after the last
FamilyV ==
    {Input("V", PatStar, <<>>, <<>>, docs \o <<Lit(<<"\n">>)>>) :
        docs \in SeqsFrom1({Arr(<<Num(1)>>), Num(7), Obj(<<>>)}, MaxDocs)}

RawInputs == FamilyO \cup FamilyF \cup FamilyG \cup FamilyW \cup FamilyV

InitRaw == InitWith(RawInputs)

SpecRaw == InitRaw /\ [][Next]_vars

\* ------------------------------------------------------------------ what the claims speak of

\* the text of a literal as a cell holds it: a string without its quotes
Lexeme(v) == IF v.b[1] = "\"" THEN SubSeq(v.b, 2, Len(v.b) - 1) ELSE v.b

RECURSIVE JoinCells(_)
JoinCells(cells) ==
    IF cells = <<>> THEN <<>>
    ELSE IF Len(cells) = 1 THEN cells[1]
    ELSE cells[1] \o <<"\t">> \o JoinCells(Tail(cells))

\* one output line: the cells, a tab between two, and the newline
RenderLine(cells) == JoinCells(cells) \o <<"\n">>

\* the lines of bytes, each without its newline
RECURSIVE LinesFrom(_, _, _)
LinesFrom(bytes, i, cur) ==
    IF i > Len(bytes) THEN <<>>
    ELSE IF bytes[i] = "\n" THEN <<cur>> \o LinesFrom(bytes, i + 1, <<>>)
    ELSE LinesFrom(bytes, i + 1, Append(cur, bytes[i]))

Lines(bytes) == LinesFrom(bytes, 1, <<>>)

RECURSIVE Product(_)
Product(ns) == IF ns = <<>> THEN 1 ELSE Head(ns) * Product(Tail(ns))

\* where the k-th document of the stream on stdin ends
DocEnd(k) == Len(Stream(SubSeq(input.stdin, 1, k)))

\* ---- C1, C6: flush_tables

\* the cells of the line that takes row idx[j] (0-based) of every table j
\* that has rows, and empty cells for the others
ComboCells(tabs, idx) ==
    ConcatAll([j \in 1..Len(tabs) |->
                IF tabs[j].nrows > 0 THEN tabs[j].rows[idx[j] + 1]
                ELSE [c \in 1..tabs[j].ncols |-> <<>>]])

\* one row index for every table: any row of a table with rows, 0 otherwise
Combos(tabs) ==
    {idx \in [1..Len(tabs) -> 0..MaxElems] :
        \A j \in 1..Len(tabs) :
            IF tabs[j].nrows > 0 THEN idx[j] < tabs[j].nrows ELSE idx[j] = 0}

\* C1: whenever flush_tables runs with some table holding completed rows,
\* every combination of one completed row from each non-empty table is on
\* some emitted line (the Cartesian product).
C1_CartesianProduct ==
    \A k \in 1..Len(flushlog) :
        (\E j \in 1..Len(flushlog[k].tables) : flushlog[k].tables[j].nrows > 0)
        => \A idx \in Combos(flushlog[k].tables) :
              \E i \in 1..Len(Lines(flushlog[k].bytes)) :
                  Lines(flushlog[k].bytes)[i] = JoinCells(ComboCells(flushlog[k].tables, idx))

\* the lines claim C6 gives for a flush of tabs, as bytes
ModuloLines(tabs) ==
    ConcatAll([i \in 1..Product([j \in 1..Len(tabs) |->
                                    IF tabs[j].nrows > 0 THEN tabs[j].nrows ELSE 1]) |->
                RenderLine(ComboCells(tabs, [j \in 1..Len(tabs) |->
                                IF tabs[j].nrows > 0 THEN (i - 1) % tabs[j].nrows ELSE 0]))])

\* C6: a call of flush_tables with row counts r_1..r_k emits nothing when
\* every r_j is 0, and otherwise exactly max(r_1,1) * ... * max(r_k,1)
\* lines, line i taking row (i mod r_j) of every table j that has rows;
\* nothing else writes to stdout.
C6_FlushLineCount ==
    /\ \A k \in 1..Len(flushlog) :
          IF \A j \in 1..Len(flushlog[k].tables) : flushlog[k].tables[j].nrows = 0
          THEN flushlog[k].bytes = <<>>
          ELSE /\ flushlog[k].bytes = ModuloLines(flushlog[k].tables)
               /\ Len(Lines(flushlog[k].bytes))
                    = Product([j \in 1..Len(flushlog[k].tables) |->
                                IF flushlog[k].tables[j].nrows > 0
                                THEN flushlog[k].tables[j].nrows ELSE 1])
    /\ out = ConcatAll([k \in 1..Len(flushlog) |-> flushlog[k].bytes])

\* a flush of three tables, two of them with two rows or more
C6_Witness ==
    \E k \in 1..Len(flushlog) :
        /\ Len(flushlog[k].tables) = 3
        /\ flushlog[k].tables[1].nrows >= 2
        /\ flushlog[k].tables[2].nrows >= 2
        /\ flushlog[k].tables[3].nrows = 1

\* ---- C2: FILE arguments

\* the lines of [*] for the files: one line per element of every top-level
\* array of every file, in order
LinesOfFiles(files) ==
    ConcatAll([f \in 1..Len(files) |->
        ConcatAll([d \in 1..Len(files[f]) |->
            ConcatAll([i \in 1..Len(files[f][d].e) |->
                RenderLine(<<Lexeme(files[f][d].e[i])>>)])])])

\* C2: with FILE arguments every file is processed in the order given; the
\* end of file k leaves nothing in the lexer that prevents or alters the
\* processing of file k+1, so the run ends normally with the rows of all
\* files, as if the values had followed in one stream.
C2_AllFilesProcessed ==
    input.files # <<>>
    => /\ pc # "exit1"
       /\ pc = "exit0" => out = LinesOfFiles(input.files)

\* ---- C3: the pattern grammar

PatAt(pat, i) == IF i <= Len(pat) THEN pat[i] ELSE NUL

\* the position of the first unescaped quote at or after i, 0 if none
RECURSIVE QuoteEnd(_, _, _)
QuoteEnd(pat, i, esc) ==
    IF i > Len(pat) THEN 0
    ELSE IF pat[i] = "\"" /\ ~esc THEN i
    ELSE QuoteEnd(pat, i + 1, pat[i] = "\\" /\ ~esc)

\* name := '"' quoted '"' | bareword: the positions a name from i can end before
NameEnds(pat, i) ==
    {e \in (i + 1)..(Len(pat) + 1) : \A k \in i..(e - 1) : pat[k] \notin PatDelims}
    \cup (IF PatAt(pat, i) = "\"" /\ QuoteEnd(pat, i + 1, FALSE) > 0
          THEN {QuoteEnd(pat, i + 1, FALSE) + 1} ELSE {})

\* a closing bracket, optional at the end of the input
Closed(pat, ends, close) ==
    {e + 1 : e \in {x \in ends : PatAt(pat, x) = close}}
    \cup {e \in ends : e = Len(pat) + 1}

RECURSIVE ArrayEnds(_, _), ObjectEnds(_, _), PropsEnds(_, _)
\* prop := name | name array | name object
PropEnds(pat, i) ==
    UNION {{e} \cup ArrayEnds(pat, e) \cup ObjectEnds(pat, e) : e \in NameEnds(pat, i)}

\* prop (',' prop)*
PropsEnds(pat, i) ==
    UNION {{e} \cup (IF PatAt(pat, e) = "," THEN PropsEnds(pat, e + 1) ELSE {}) :
            e \in PropEnds(pat, i)}

\* inner := '*' | array | object
InnerEnds(pat, i) ==
    (IF PatAt(pat, i) = "*" THEN {i + 1} ELSE {})
    \cup ArrayEnds(pat, i) \cup ObjectEnds(pat, i)

\* array := '[' inner ']'
ArrayEnds(pat, i) ==
    IF PatAt(pat, i) = "[" THEN Closed(pat, InnerEnds(pat, i + 1), "]") ELSE {}

\* object := '{' prop (',' prop)* '}'
ObjectEnds(pat, i) ==
    IF PatAt(pat, i) = "{" THEN Closed(pat, PropsEnds(pat, i + 1), "}") ELSE {}

\* pattern := array | object, the whole string
InGrammar(pat) == (Len(pat) + 1) \in (ArrayEnds(pat, 1) \cup ObjectEnds(pat, 1))

\* C3: for every pattern string that the grammar does not derive,
\* compilation ends in the fatal "invalid pattern" outcome: no operator
\* tree, no other failure, no input processed.
C3_InvalidPatternFatal ==
    (pc # "parse" /\ ~InGrammar(input.pat))
    => /\ pc = "exit1"
       /\ err = "invalid pattern"
       /\ head = NoOp
       /\ runs = 0
       /\ out = <<>>

\* ---- C4: streams of documents

\* the main loop on stdin from state s: run_op, then peek for T_EOF
RECURSIVE RunStream(_)
RunStream(s) ==
    Bind(run_op(head, patbuf, s), LAMBDA s1 :
        IF s1.err # "" THEN s1
        ELSE Bind(peek_token(s1), LAMBDA s2 :
            IF s2.err # "" \/ s2.lx.token.type = "T_EOF" THEN s2 ELSE RunStream(s2)))

\* what a fresh process with the same pattern writes for the stream docs
OutAlone(docs) ==
    RunStream([lx |-> [Lexer0 EXCEPT !.file = Stream(docs)],
               tables |-> parse_pattern(input.pat \o <<NUL>>).tables,
               out |-> <<>>, flushlog |-> <<>>, calls |-> NoCalls,
               err |-> "", c |-> NUL, n |-> 0]).out

\* C4: the output of a stream of well-formed documents is the output of
\* each document processed alone, concatenated in order: nothing written
\* while processing one document influences the lines of the next.
C4_StreamConcat ==
    (input.files = <<>> /\ pc \in {"exit0", "exit1"} /\ runs > 0)
    => /\ pc = "exit0"
       /\ out = ConcatAll([k \in 1..Len(input.stdin) |-> OutAlone(<<input.stdin[k]>>)])

\* a stream of three documents, the first two with rows of their own
C4_Witness ==
    /\ pc = "exit0"
    /\ input.files = <<>>
    /\ Len(input.stdin) = 3
    /\ Len(flushlog) = 3
    /\ Len(Lines(flushlog[1].bytes)) >= 2
    /\ flushlog[2].bytes # <<>>
    /\ flushlog[2].bytes # flushlog[1].bytes
    /\ out = flushlog[1].bytes \o flushlog[2].bytes \o flushlog[3].bytes

\* ---- C5: a top-level value of the wrong kind

TopMismatch(doc) ==
    \/ head.type = "OP_OBJECT" /\ doc.k # "obj"
    \/ head.type = "OP_ARRAY" /\ doc.k # "arr"

\* C5: when the kind of the top-level value differs from the container
\* kind of the top operator, run_op emits no line, leaves every table as it
\* was, and consumes exactly the tokens of that one value and nothing of
\* the following value.
C5_SkipOnMismatch ==
    [][(pc = "run" /\ input.files = <<>> /\ TopMismatch(input.stdin[runs + 1]))
        => /\ pc' = "peek"
           /\ out' = out
           /\ tables' = tables
           /\ err' = ""
           /\ ~lexer'.peek
           /\ Consumed(lexer') = DocEnd(runs + 1)]_vars

\* a nested array or object of the wrong kind has been skipped, and a value
\* follows it
C5_Witness ==
    /\ pc = "peek"
    /\ input.files = <<>>
    /\ runs >= 1
    /\ Len(input.stdin) > runs
    /\ TopMismatch(input.stdin[runs])
    /\ input.stdin[runs].k # "lit"
    /\ Len(input.stdin[runs].e) >= 2
    /\ Consumed(lexer) = DocEnd(runs)

\* ---- C7, C8, C9: what a pattern writes for a document

\* the value of the last member of object doc whose key is name
Member(doc, name) ==
    doc.e[CHOOSE i \in 1..Len(doc.e) :
            /\ doc.e[i].key = name
            /\ \A j \in (i + 1)..Len(doc.e) : doc.e[j].key # name]

HasMember(doc, name) == \E i \in 1..Len(doc.e) : doc.e[i].key = name

\* id <sep> v for every element v of vals, in order
LinesOfObjB(o) ==
    ConcatAll([i \in 1..Len(Member(o, <<"v", "a", "l", "s">>).e) |->
                RenderLine(<<Lexeme(Member(o, <<"i", "d">>)),
                             Lexeme(Member(o, <<"v", "a", "l", "s">>).e[i])>>)])

\* C7: for [{id,vals[*]}] on an array of objects with a scalar id and a
\* non-empty vals, members in any order, the output is, object by object,
\* one line id<sep>v per element of that object's vals; each object is
\* flushed at its end, so no line mixes two objects and no row is emitted
\* again.
C7_RowsPerObject ==
    (input.fam = "B" /\ pc \in {"exit0", "exit1"})
    => /\ pc = "exit0"
       /\ out = ConcatAll([k \in 1..Len(input.stdin[1].e) |-> LinesOfObjB(input.stdin[1].e[k])])
       /\ Len(flushlog) = Len(input.stdin[1].e)
       /\ \A k \in 1..Len(flushlog) : flushlog[k].bytes = LinesOfObjB(input.stdin[1].e[k])

\* two objects with different ids, the first with vals before id and two
\* elements
C7_Witness ==
    /\ input.fam = "B"
    /\ pc = "exit0"
    /\ Len(input.stdin[1].e) = 2
    /\ input.stdin[1].e[1].e[1].key = <<"v", "a", "l", "s">>
    /\ Len(input.stdin[1].e[1].e[1].e) = 2
    /\ Member(input.stdin[1].e[1], <<"i", "d">>) # Member(input.stdin[1].e[2], <<"i", "d">>)
    /\ Len(Lines(out)) >= 3

\* the cell of property name: the lexeme of the last member with exactly
\* that key, empty when there is none
CellOf(doc, name) == IF HasMember(doc, name) THEN Lexeme(Member(doc, name)) ELSE <<>>

\* C8: a member is interpreted by a property iff its key is byte-for-byte
\* the property's name; every other member is skipped with all its nested
\* content, writes no cell and leaves the cells of the matched members as
\* they are: {x,y} writes the one row x<sep>y of the members x and y.
C8_ExactKeyMatch ==
    (input.fam = "C" /\ pc \in {"exit0", "exit1"})
    => /\ pc = "exit0"
       /\ out = IF \E i \in 1..Len(input.props) : HasMember(input.stdin[1], input.props[i].name)
                THEN RenderLine([i \in 1..Len(input.props) |->
                                    CellOf(input.stdin[1], input.props[i].name)])
                ELSE <<>>

\* {x,y} on an object with x, then a key that starts with x, then a nested
\* member, then y
C8_Witness ==
    /\ input.fam = "C"
    /\ pc = "exit0"
    /\ input.props[1].name = <<"x">>
    /\ Len(input.stdin[1].e) = 3
    /\ input.stdin[1].e[1].key = <<"x">>
    /\ input.stdin[1].e[2].key \in {<<"x", "y">>, <<"q">>}
    /\ input.stdin[1].e[3].key = <<"y">>
    /\ out = RenderLine(<<Lexeme(input.stdin[1].e[1]), <<"2">>>>)

\* the first scalar property of props, 0 if none
FirstScalar(props) ==
    IF \E i \in 1..Len(props) : ~props[i].arr
    THEN CHOOSE i \in 1..Len(props) : ~props[i].arr /\ \A j \in 1..(i - 1) : props[j].arr
    ELSE 0

\* the cells of line k in table registration order: the object's table
\* stands where its first scalar property is and holds the scalar
\* properties in pattern order; a name[*] table stands where name[*] is
CellsInOrder(props, doc, k) ==
    ConcatAll([i \in 1..Len(props) |->
        IF props[i].arr THEN <<Lexeme(Member(doc, props[i].name).e[k])>>
        ELSE IF i = FirstScalar(props)
        THEN ConcatAll([j \in 1..Len(props) |->
                IF props[j].arr THEN <<>> ELSE <<Lexeme(Member(doc, props[j].name))>>])
        ELSE <<>>])

\* the number of lines: the elements of the name[*] member, 1 without one
LineCount(props, doc) ==
    IF \E i \in 1..Len(props) : props[i].arr
    THEN Len(Member(doc, props[CHOOSE i \in 1..Len(props) : props[i].arr].name).e)
    ELSE 1

\* C9: the cells of every line are ordered by table in registration order
\* (an object's table is created at its first scalar property) and within
\* a table by column, columns being given in the order the Collect nodes
\* are created; for an all-scalar {p1,...,pn} the cell of p_i is the i-th.
C9_CellOrder ==
    (input.fam = "D" /\ pc \in {"exit0", "exit1"})
    => /\ pc = "exit0"
       /\ out = ConcatAll([k \in 1..LineCount(input.props, input.stdin[1]) |->
                    RenderLine(CellsInOrder(input.props, input.stdin[1], k))])

\* {x,r[*],y} on an object whose members come in the reverse order
C9_Witness ==
    /\ input.fam = "D"
    /\ pc = "exit0"
    /\ Len(input.props) = 3
    /\ input.props[2].arr
    /\ input.stdin[1].e[1].key = input.props[3].name
    /\ Len(Lines(out)) >= 2
    /\ Lines(out)[2] = <<"1", "\t", "2", "\t", "7">>

\* ---- C10: root selection

RECURSIVE Sum(_)
Sum(ns) == IF ns = <<>> THEN 0 ELSE Head(ns) + Sum(Tail(ns))

RECURSIVE RootCount(_)
RootCount(op) ==
    CASE op.type = "OP_ARRAY" -> (IF op.isroot THEN 1 ELSE 0) + RootCount(op.next)
      [] op.type = "OP_OBJECT" ->
            (IF op.isroot THEN 1 ELSE 0)
            + Sum([i \in 1..Len(op.prop) |-> RootCount(op.prop[i].op)])
      [] OTHER -> 0

\* the rule of the root: an Array whose next is a Collect, an Object with
\* more than one property or whose single property is a Collect
RootRule(op) ==
    \/ op.type = "OP_ARRAY" /\ op.next.type = "OP_COLLECT"
    \/ op.type = "OP_OBJECT" /\ (Len(op.prop) > 1 \/ op.prop[1].op.type = "OP_COLLECT")

\* the root is the first operator from op down that the rule takes, and
\* every operator above it has no table
RECURSIVE RootOnPath(_)
RootOnPath(op) ==
    IF op.type \notin {"OP_ARRAY", "OP_OBJECT"} THEN FALSE
    ELSE IF RootRule(op) THEN op.isroot
    ELSE /\ ~op.isroot
         /\ op.table = 0
         /\ RootOnPath(IF op.type = "OP_ARRAY" THEN op.next ELSE op.prop[1].op)

\* C10: for every pattern that compiles, find_root returns true and sets
\* isroot on exactly one operator, the first on the way down that the rule
\* takes; every operator above it has no table; the abort for "no root"
\* is never reached.
C10_OneRoot ==
    /\ pc # "abort"
    /\ pc = "find_root" => find_root(head).found /\ RootCount(head) = 0
    /\ pc = "open" => RootCount(head) = 1 /\ RootOnPath(head)

\* a compiled pattern whose root is below the top operator
C10_Witness ==
    /\ pc = "open"
    /\ ~head.isroot
    /\ RootCount(head) = 1
    /\ RootOnPath(head)

\* ---- C11, C12, C16: the rows of the tables

HasValue(row) == \E i \in 1..Len(row) : Len(row[i]) > 0

AllEmpty(row) == \A i \in 1..Len(row) : row[i] = <<>>

\* every completed row of every table of tabs has a non-empty cell
RowsHaveValue(tabs) ==
    \A t \in 1..Len(tabs) : \A i \in 1..tabs[t].nrows : HasValue(tabs[t].rows[i])

\* what add_row is to do to table t
Promotion(before, after, t) ==
    IF HasValue(before[t].newrow)
    THEN /\ after[t].nrows = before[t].nrows + 1
         /\ after[t].rows[after[t].nrows] = before[t].newrow
         /\ \A i \in 1..before[t].nrows : after[t].rows[i] = before[t].rows[i]
         /\ AllEmpty(after[t].newrow)
         /\ \A u \in 1..Len(before) : u # t => after[u] = before[u]
    ELSE after = before

\* C11: every completed row of every table has a non-empty cell; add_row
\* promotes a pending row that has a value and leaves an all-empty pending
\* row behind, and adds no row when the pending row is all-empty; every
\* emitted line has a non-empty cell.
C11_RowsNonEmpty ==
    /\ RowsHaveValue(tables)
    /\ \A k \in 1..Len(flushlog) : RowsHaveValue(flushlog[k].tables)
    /\ \A k \in 1..Len(calls.rows) :
          /\ RowsHaveValue(calls.rows[k].after)
          /\ Promotion(calls.rows[k].before, calls.rows[k].after, calls.rows[k].t)
    /\ \A i \in 1..Len(Lines(out)) : \E j \in 1..Len(Lines(out)[i]) : Lines(out)[i][j] # "\t"

\* add_row has promoted a row, has been called on an all-empty pending row
\* that an empty string had reset, and lines have been emitted
C11_Witness ==
    /\ pc = "exit0"
    /\ out # <<>>
    /\ \E k \in 1..Len(calls.rows) : HasValue(calls.rows[k].before[calls.rows[k].t].newrow)
    /\ \E k \in 1..Len(calls.rows) :
          /\ ~HasValue(calls.rows[k].before[calls.rows[k].t].newrow)
          /\ calls.rows[k].before[calls.rows[k].t].nrows = 0
    /\ \E d \in 1..Len(input.stdin) :
          /\ input.stdin[d].k = "obj"
          /\ Len(input.stdin[d].e) = 2
          /\ input.stdin[d].e[2].b = <<"\"", "\"">>
    /\ head.type = "OP_OBJECT"

\* the Collect nodes of the tree op that write to table t
RECURSIVE CollectCount(_, _)
CollectCount(op, t) ==
    CASE op.type = "OP_COLLECT" -> IF op.table = t THEN 1 ELSE 0
      [] op.type = "OP_ARRAY" -> CollectCount(op.next, t)
      [] op.type = "OP_OBJECT" ->
            Sum([i \in 1..Len(op.prop) |-> CollectCount(op.prop[i].op, t)])
      [] OTHER -> 0

\* tabs has the tables of the compiled pattern, each with its columns, and
\* every pending and completed row has that many cells
ColumnsFixed(tabs) ==
    /\ Len(tabs) = Len(tables)
    /\ \A t \in 1..Len(tabs) :
          /\ tabs[t].ncols = CollectCount(head, t)
          /\ Len(tabs[t].newrow) = tabs[t].ncols
          /\ \A i \in 1..tabs[t].nrows : Len(tabs[t].rows[i]) = tabs[t].ncols

\* the cells of a line: the bytes between the field separators
RECURSIVE CellsFrom(_, _, _)
CellsFrom(line, i, cur) ==
    IF i > Len(line) THEN <<cur>>
    ELSE IF line[i] = "\t" THEN <<cur>> \o CellsFrom(line, i + 1, <<>>)
    ELSE CellsFrom(line, i + 1, Append(cur, line[i]))

Cells(line) == CellsFrom(line, 1, <<>>)

\* the columns of tables 1..t
RECURSIVE ColsUpTo(_, _)
ColsUpTo(tabs, t) == IF t = 0 THEN 0 ELSE tabs[t].ncols + ColsUpTo(tabs, t - 1)

\* C12: the column count of every table is fixed when compilation ends;
\* every pending and completed row of a table has that many cells; every
\* emitted line has as many cells as all tables have columns, with one
\* separator less, a table without completed rows giving empty cells.
C12_ColumnsFixed ==
    pc \notin {"parse", "segv"}
    => /\ ColumnsFixed(tables)
       /\ \A k \in 1..Len(calls.rows) :
             ColumnsFixed(calls.rows[k].before) /\ ColumnsFixed(calls.rows[k].after)
       /\ \A k \in 1..Len(flushlog) :
             /\ ColumnsFixed(flushlog[k].tables)
             /\ \A i \in 1..Len(Lines(flushlog[k].bytes)) :
                   /\ Len(Cells(Lines(flushlog[k].bytes)[i]))
                        = ColsUpTo(tables, Len(tables))
                   /\ Len(SelectSeq(Lines(flushlog[k].bytes)[i], LAMBDA b : b = "\t"))
                        = ColsUpTo(tables, Len(tables)) - 1
                   /\ \A t \in 1..Len(tables) :
                         flushlog[k].tables[t].nrows = 0
                         => \A c \in (ColsUpTo(tables, t - 1) + 1)..ColsUpTo(tables, t) :
                               Cells(Lines(flushlog[k].bytes)[i])[c] = <<>>
       /\ out = ConcatAll([k \in 1..Len(flushlog) |-> flushlog[k].bytes])

\* lines of three tables have been emitted, the second table without rows
C12_Witness ==
    /\ pc = "exit0"
    /\ Len(tables) = 3
    /\ Len(flushlog) = 1
    /\ flushlog[1].tables[1].nrows = 2
    /\ flushlog[1].tables[2].nrows = 0
    /\ flushlog[1].tables[3].nrows = 1
    /\ Lines(out)[2] = <<"2", "\t", "\t", "z">>

\* ---- C13: number literals

\* the tokens the lexer read from the stream, in order: the calls that found
\* lexer.peek unset and went to read_token
FreshToks == SelectSeq(calls.toks, LAMBDA e : e.fn = "next_token" /\ e.fresh)

\* what follows a number literal that byte f ends: the token f starts, or a
\* fatal error
FollowType(f) ==
    CASE f \in {<<>>, <<" ">>} -> "T_EOF"
      [] f = <<",">> -> "T_MEMBERSEP"
      [] f = <<"]">> -> "T_ENDARRAY"
      [] f = <<"}">> -> "T_ENDOBJECT"
      [] OTHER -> "fatal"

\* the literal of a stream of family N, and the byte that follows it
NumOf(text) ==
    IF text[Len(text)] \in NonNumberBytes THEN SubSeq(text, 1, Len(text) - 1) ELSE text

FollowOf(text) == IF text[Len(text)] \in NonNumberBytes THEN <<text[Len(text)]>> ELSE <<>>

NumberLexeme(num, f) ==
    /\ calls.toks # <<>> \/ err # "" =>
          /\ FreshToks # <<>>
          /\ FreshToks[1].type = "T_NUMBER"
          /\ FreshToks[1].text = num
          /\ FreshToks[1].pos = Len(num)
    /\ Len(FreshToks) >= 2 =>
          /\ FreshToks[2].type = FollowType(f)
          /\ FreshToks[2].pos >= Len(num) + Len(f)
    /\ runs >= 1 /\ err = "" => tables[1].newrow[1] = num

\* C13: for a number literal N followed by a byte that is not part of a
\* number, or by the end of the stream, the lexer returns a Number token
\* whose text is exactly the bytes of N; the following byte is not consumed
\* and is the first byte the next token sees; a Collect operator that meets
\* the token writes a cell equal to N.
C13_NumberLexeme ==
    input.fam = "N" =>
        /\ NumOf(Stream(input.stdin)) \in NumberLiterals
        /\ NumberLexeme(NumOf(Stream(input.stdin)), FollowOf(Stream(input.stdin)))

\* the literal -10.05e-10 before a comma has been collected, and the comma
\* has been read as the next token
C13_Witness ==
    /\ input.fam = "N"
    /\ Stream(input.stdin) = <<"-", "1", "0", ".", "0", "5", "e", "-", "1", "0", ",">>
    /\ runs = 1
    /\ tables[1].newrow[1] = <<"-", "1", "0", ".", "0", "5", "e", "-", "1", "0">>
    /\ Len(FreshToks) = 2
    /\ FreshToks[2].type = "T_MEMBERSEP"

\* ---- C14: string literals

\* the index of the first quote of text from i on that no backslash
\* escapes; 0 when there is none
RECURSIVE ClosingQuote(_, _)
ClosingQuote(text, i) ==
    IF i > Len(text) THEN 0
    ELSE IF text[i] = "\"" THEN i
    ELSE IF text[i] = "\\" THEN ClosingQuote(text, i + 2)
    ELSE ClosingQuote(text, i + 1)

TwoByteEscapes == {"\"", "\\", "/", "b", "f", "n", "r", "t"}

HexBytes ==
    {"0", "1", "2", "3", "4", "5", "6", "7", "8", "9",
     "a", "b", "c", "d", "e", "f", "A", "B", "C", "D", "E", "F"}

\* the raw bytes 0x00..0x1f
RawControl == {NUL, "\t", "\n", "\r", "\f"}

\* b from i on is made of plain bytes, two-byte escapes and \u with four
\* hex digits
RECURSIVE WellEscaped(_, _)
WellEscaped(b, i) ==
    IF i > Len(b) THEN TRUE
    ELSE IF b[i] \in RawControl THEN FALSE
    ELSE IF b[i] # "\\" THEN WellEscaped(b, i + 1)
    ELSE IF i + 1 <= Len(b) /\ b[i + 1] \in TwoByteEscapes THEN WellEscaped(b, i + 2)
    ELSE /\ i + 5 <= Len(b)
         /\ b[i + 1] = "u"
         /\ \A k \in 2..5 : b[i + k] \in HexBytes
         /\ WellEscaped(b, i + 6)

StringLexeme(text, close) ==
    IF close # 0 /\ WellEscaped(SubSeq(text, 2, close - 1), 1)
    THEN /\ FreshToks # <<>>
         /\ FreshToks[1].type = "T_STRING"
         /\ FreshToks[1].text = SubSeq(text, 2, close - 1)
         /\ FreshToks[1].pos = close
         /\ runs >= 1 /\ err = "" => tables[1].newrow[1] = SubSeq(text, 2, close - 1)
    ELSE /\ err # ""
         /\ calls.toks = <<>>

\* C14: the text of a String token is exactly the bytes between the opening
\* quote and the first quote that no backslash escapes, every escape
\* sequence kept as written; a backslash before a byte that is none of
\* " \ / b f n r t u, a byte that is no hex digit among the four after \u,
\* a raw control byte, and the end of the stream before the closing quote
\* are fatal.
C14_StringLexeme ==
    input.fam = "S" /\ (calls.toks # <<>> \/ err # "") =>
        StringLexeme(Stream(input.stdin), ClosingQuote(Stream(input.stdin), 2))

\* the string "\u1aF0\\" has been collected as the ten bytes between its
\* quotes
C14_Witness ==
    /\ input.fam = "S"
    /\ runs = 1
    /\ Len(FreshToks) = 1
    /\ FreshToks[1].text = <<"\\", "u", "1", "a", "F", "0", "\\", "\\">>
    /\ tables[1].newrow[1] = FreshToks[1].text
    /\ Stream(input.stdin) = <<"\"">> \o FreshToks[1].text \o <<"\"">>

\* ---- C15: skipping and real parsing

\* the tokens the lexer has handed to its callers and they have consumed:
\* the position in the stream and the state of the peek cache
TokensTaken(lx) == <<Consumed(lx), lx.peek>>

\* run_op(head) on a value that starts with the bracket of head's type, and
\* skip_value on the same value, end alike
SameAsSkip ==
    pc = "run" /\ input.fam = "O" /\ runs = 0 =>
        /\ (err' = "") = (skip_value(State).err = "")
        /\ err' = "" => TokensTaken(lexer') = TokensTaken(skip_value(State).lx)

\* C15: skipping and real parsing accept the same grammar: on every token
\* sequence that starts at BeginObject run_object_op ends without a fatal
\* error exactly when skip_object does, and both consume the same tokens;
\* likewise run_array_op and skip_array on sequences that start at
\* BeginArray.
C15_SameGrammar == [][SameAsSkip]_vars

\* ---- C16: the tables between top-level values

PendingEmpty(tabs) == \A t \in 1..Len(tabs) : AllEmpty(tabs[t].newrow)

NoRows(tabs) == \A t \in 1..Len(tabs) : tabs[t].nrows = 0

\* C16: at every call of flush_tables the pending row of every table is
\* all-empty, and when the call returns every table has zero completed
\* rows; after a top-level value has been processed without a fatal error
\* every table has no completed row and an all-empty pending row.
C16_TablesReset ==
    /\ \A k \in 1..Len(flushlog) :
          /\ PendingEmpty(flushlog[k].tables)
          /\ NoRows(flushlog[k].after)
    /\ pc \in {"peek", "run", "close", "open", "exit0"} /\ runs >= 1 =>
          /\ NoRows(tables)
          /\ PendingEmpty(tables)

\* two top-level values have been processed, each flushed with rows, and
\* the tables are empty again
C16_Witness ==
    /\ pc = "peek"
    /\ runs = 2
    /\ Len(flushlog) = 2
    /\ \A k \in 1..2 : ~NoRows(flushlog[k].tables) /\ flushlog[k].bytes # <<>>
    /\ NoRows(tables)
    /\ PendingEmpty(tables)

\* ---- C17: the do-while loops of main

\* the values of all the streams of the input
ValueCount ==
    CASE input.fam = "V" -> Len(input.stdin) - 1
      [] input.files = <<>> -> Len(input.stdin)
      [] OTHER -> Sum([f \in 1..Len(input.files) |-> Len(input.files[f])])

Finished == pc \in {"exit0", "exit1"}

\* C17: run_op runs before the test for the end of the stream: on a stream
\* without a value, empty or of white space only, the first run_op peeks
\* the Eof token and the program ends in the fatal 'unexpected token type'
\* state; on streams of k >= 1 well-formed values run_op is invoked exactly
\* k times and the program ends successfully.
C17_RunBeforeEof ==
    /\ input.fam = "W" /\ runs >= 1 =>
          /\ pc = "exit1"
          /\ err = "unexpected token type"
          /\ runs = 1
    /\ input.fam \in {"F", "G", "V"} /\ Finished =>
          /\ pc = "exit0"
          /\ runs = ValueCount

\* ---- C18: where a number may end

IsDigit(t, i) == i <= Len(t) /\ t[i] \in {"0", "1", "2", "3", "4", "5", "6", "7", "8", "9"}

\* the first index from i on that holds no digit
RECURSIVE DigitsEnd(_, _)
DigitsEnd(t, i) == IF IsDigit(t, i) THEN DigitsEnd(t, i + 1) ELSE i

\* Each part of a number from index i on: the index after the part, or 0
\* where a digit is wanted and the stream ends or holds another byte.
\* the integer part: a sign, then 0 alone or a digit 1..9 and digits
IntEnd(t, i) ==
    IF ~IsDigit(t, i) THEN 0
    ELSE IF t[i] = "0" THEN i + 1
    ELSE DigitsEnd(t, i + 1)

\* the fraction, if a point follows: at least one digit
FracEnd(t, i) ==
    IF i = 0 THEN 0
    ELSE IF i > Len(t) \/ t[i] # "." THEN i
    ELSE IF ~IsDigit(t, i + 1) THEN 0
    ELSE DigitsEnd(t, i + 1)

\* the digits of the exponent
ExpDigitsEnd(t, i) == IF ~IsDigit(t, i) THEN 0 ELSE DigitsEnd(t, i)

\* the exponent, if e or E follows: an optional sign, at least one digit
ExpEnd(t, i) ==
    IF i = 0 THEN 0
    ELSE IF i > Len(t) \/ t[i] \notin {"e", "E"} THEN i
    ELSE IF i + 1 <= Len(t) /\ t[i + 1] \in {"+", "-"} THEN ExpDigitsEnd(t, i + 2)
    ELSE ExpDigitsEnd(t, i + 1)

NumberEnd(t) == ExpEnd(t, FracEnd(t, IntEnd(t, IF t[1] = "-" THEN 2 ELSE 1)))

NumberScan(t, end) ==
    IF end = 0
    THEN /\ err # ""
         /\ calls.toks = <<>>
    ELSE /\ FreshToks # <<>>
         /\ FreshToks[1].type = "T_NUMBER"
         /\ FreshToks[1].text = SubSeq(t, 1, end - 1)
         /\ FreshToks[1].pos = end - 1

\* C18: the end of the stream ends a number token successfully after the
\* integer part, after at least one digit of the fraction and after at least
\* one digit of the exponent, and the token's text is the lexeme read so
\* far; the end of the stream, or a byte that is no digit, directly after
\* the minus sign, after the point, after e or E (where a sign may stand
\* before the digit) or after the sign of the exponent is fatal.
C18_NumberEnds ==
    input.fam = "R" /\ (calls.toks # <<>> \/ err # "") =>
        NumberScan(Stream(input.stdin), NumberEnd(Stream(input.stdin)))

\* the stream 1.1e has ended in the fatal state at its first token
C18_Witness ==
    /\ input.fam = "R"
    /\ Stream(input.stdin) = <<"1", ".", "1", "e">>
    /\ pc = "exit1"
    /\ err = "no exponent digits"
    /\ calls.toks = <<>>

\* ---- C19: peek_token and next_token

\* the token a literal or a punctuation byte of the stream is
TokenOf(v) ==
    [type |-> CASE v.b = <<"[">> -> "T_BEGINARRAY"
                [] v.b = <<"]">> -> "T_ENDARRAY"
                [] v.b[1] = "\"" -> "T_STRING"
                [] OTHER -> "T_NUMBER",
     text |-> Lexeme(v)]

\* the token sequence of the input: its tokens and the Eof token
InputTokens ==
    [i \in 1..Len(input.stdin) |-> TokenOf(input.stdin[i])]
    \o <<[type |-> "T_EOF", text |-> <<>>]>>

Returned(e) == [type |-> e.type, text |-> e.text]

\* call i is the next_token call that peek_token makes to fill lexer.peek
InPeek(log, i) ==
    /\ log[i].fn = "next_token"
    /\ i < Len(log)
    /\ log[i + 1].fn = "peek_token"
    /\ log[i + 1].fresh

\* call i is a next_token call of a caller of the lexer
IsNext(log, i) == log[i].fn = "next_token" /\ ~InPeek(log, i)

\* the next_token calls of callers before call i
NextsBefore(log, i) == Cardinality({j \in 1..(i - 1) : IsNext(log, j)})

PeekNext(log) ==
    /\ \A i \in 1..Len(log) :
          /\ NextsBefore(log, i) < Len(InputTokens)
          /\ Returned(log[i]) = InputTokens[NextsBefore(log, i) + 1]
    /\ Len(SelectSeq(log, LAMBDA e : e.fn = "next_token" /\ e.fresh))
          <= NextsBefore(log, Len(log) + 1) + 1
    /\ \A i \in 2..Len(log) :
          /\ log[i].fn = "peek_token" /\ log[i - 1].fn = "peek_token" =>
                /\ ~log[i].fresh
                /\ Returned(log[i]) = Returned(log[i - 1])
                /\ log[i].pos = log[i - 1].pos
          /\ IsNext(log, i) /\ log[i - 1].fn = "peek_token" =>
                /\ ~log[i].fresh
                /\ Returned(log[i]) = Returned(log[i - 1])
                /\ log[i].pos = log[i - 1].pos
                /\ i < Len(log) => log[i + 1].fresh
                /\ i = Len(log) => ~lexer.peek

\* C19: in any interleaving of peek_token and next_token calls on a stream
\* the tokens the next_token calls return are the token sequence of the
\* input, in order; peek_token reads at most one token ahead; peek_token
\* calls with no next_token between them return the same token and read no
\* further input; the next_token call after a peek_token returns the peeked
\* token, kind and text, and clears the cache.
C19_PeekNext == input.fam = "T" => PeekNext(calls.toks)

\* on the stream 12 "s" 0: "s" is peeked twice after 12 was taken
\* unpeeked, next_token takes it, and 0 and the Eof token are read
C19_Witness ==
    /\ input.fam = "T"
    /\ Len(input.stdin) = 3
    /\ pc = "eof"
    /\ Len(calls.toks) = 7
    /\ calls.toks[1].fn = "next_token" /\ calls.toks[1].text = <<"1", "2">>
    /\ calls.toks[3].fn = "peek_token" /\ calls.toks[3].fresh
    /\ calls.toks[4].fn = "peek_token" /\ ~calls.toks[4].fresh
    /\ calls.toks[5].fn = "next_token" /\ ~calls.toks[5].fresh
    /\ calls.toks[5].text = <<"s">>
    /\ calls.toks[6].text = <<"0">>
    /\ calls.toks[7].type = "T_EOF"

\* ---- C20: the unread slot

\* how many bytes the lexer holds after the first n calls: read_char hands
\* it one, unread_char takes the last one back
RECURSIVE Delivered(_, _)
Delivered(io, n) ==
    IF n = 0 THEN 0
    ELSE IF io[n].fn = "read_char" THEN Delivered(io, n - 1) + 1
    ELSE Delivered(io, n - 1) - 1

\* byte j of the stream as read_char delivers it: 0 from the end on
ByteAt(text, j) == IF j <= Len(text) THEN text[j] ELSE NUL

Pushback(io, text) ==
    /\ \A i \in 1..Len(io) :
          io[i].fn = "unread_char" =>
              /\ io[i].slot = NUL
              /\ io[i].c # NUL
              /\ i > 1 /\ io[i - 1].fn = "read_char" /\ io[i - 1].c = io[i].c
              /\ i < Len(io) =>
                    /\ io[i + 1].fn = "read_char"
                    /\ io[i + 1].c = io[i].c
              /\ i = Len(io) => lexer.unread = io[i].c
    /\ \A i \in 1..Len(io) :
          io[i].fn = "read_char" => io[i].c = ByteAt(text, Delivered(io, i))
    /\ (Len(io) = 0 \/ io[Len(io)].fn = "read_char") => lexer.unread = NUL

\* C20: unread_char is called only while the unread slot is empty and
\* never with the byte 0 of the end of the stream, and the byte pushed back
\* is the very next byte read_char returns; the bytes delivered to the
\* lexer are the bytes of the input, none lost, doubled or out of order,
\* and at most one byte is pending.
C20_Pushback == input.files = <<>> => Pushback(calls.io, Stream(input.stdin))

\* the number 0.05 before a comma: after_frac has read again the comma
\* that append_digits pushed back, has pushed it back itself, and the next
\* token has read it
C20_Witness ==
    /\ input.fam = "N"
    /\ Stream(input.stdin) = <<"0", ".", "0", "5", ",">>
    /\ Len(calls.io) = 8
    /\ calls.io[5].fn = "read_char" /\ calls.io[5].c = ","
    /\ calls.io[6].fn = "unread_char" /\ calls.io[6].slot = NUL
    /\ calls.io[7].fn = "read_char" /\ calls.io[7].slot = ","
    /\ calls.io[8].fn = "unread_char" /\ calls.io[8].c = ","
    /\ lexer.unread = ","

====
